---- MODULE Spec2Model ----
(***************************************************************************)
(* A model of the GDI mini node: the in-memory DataRegistry               *)
(* (mini_node/data/registry.py), the RegistryUpdater that maps file        *)
(* events to registry mutations (mini_node/data/fs.py), the request        *)
(* handlers that read the registry and Parquet files, and the OIDC         *)
(* verifier with its LRU/TTL cache (mini_node/oidc.py).                    *)
(*                                                                         *)
(* Representation.                                                         *)
(*  - A file path below DATA_DIR is a record [dir, name]: dir is the       *)
(*    sequence of directory names between DATA_DIR and the file, name is   *)
(*    the basename cut into tokens (<<"allele-freq-", "chr", "1", ".",     *)
(*    "0", ".", "parquet">>).  String functions (startswith, rindex,       *)
(*    slicing) are computed on the tokens and their character lengths.     *)
(*  - A Python dict whose iteration order reaches a result                 *)
(*    (BeaconData.assemblies) is an insertion-ordered sequence of          *)
(*    entries; the other dicts are functions.                              *)
(*  - The registry is one record value, DATA, and every registry method    *)
(*    is an operator from a registry value to a registry value.            *)
(***************************************************************************)
EXTENDS Integers, Sequences, FiniteSets, TLC

VARIABLES
    DATA,       \* the DataRegistry singleton (mini_node/data/__init__.py)
    last,       \* history: the operation applied by the latest step
    nev,        \* history: number of operations applied so far
    failedLast, \* history: files whose latest read or parse attempt failed
    pending,    \* the file events of one dataset that are still to be applied
    applied,    \* the file events of that dataset applied so far
    start0,     \* the registry before the first of those events
    hpc,        \* request handler: position in the catalog loop
    hcat,       \* request handler: the catalog it renders
    hidx,       \* request handler: list-iterator index into the live list
    hid,        \* request handler: the dataset id it has just read
    lru,        \* LRUCache.data, least recently used first
    now,        \* time.time(), in whole seconds
    calls,      \* history: number of cache calls made so far
    lastUse,    \* history: per cached key, the call that touched it last
    inserted,   \* history: per cached key, the call that inserted it
    onlyFresh,  \* history: every call so far was a put of an uncached key
    lastv,      \* history: the latest cache / verify call and its outcome
    localFiles, \* the files below DATA_DIR: path -> content
    localDirs,  \* the directories below DATA_DIR
    bucket,     \* the objects the bucket lists: local path -> object
    syncLog,    \* history: what the latest S3DataSync call did
    opc,        \* S3DataSync.observe: where the loop is
    stop,       \* stop_signal.is_set()
    blocked,    \* tenths of a second since the loop last read stop_signal
    sleepLeft,  \* tenths of a second left of time.sleep(60)
    obsLog,     \* history: failures caught and events handled by observe
    req,        \* the request the latest handler call served
    resp,       \* what that call answered
    setup,      \* BeaconSetup: what the personality's configuration gives
    writer,     \* the ParquetVcfWriter of one parquet-writer command
    outputDir   \* the Parquet files of that command's destination directory

vars == <<DATA, last, nev, failedLast, pending, applied, start0, hpc, hcat, hidx, hid,
          lru, now, calls, lastUse, inserted, onlyFresh, lastv,
          localFiles, localDirs, bucket, syncLog,
          opc, stop, blocked, sleepLeft, obsLog, req, resp, setup,
          writer, outputDir>>
registryVars == <<DATA, last, nev, failedLast>>
orderVars == <<pending, applied, start0>>
handlerVars == <<hpc, hcat, hidx, hid>>
oidcVars == <<lru, now, calls, lastUse, inserted, onlyFresh, lastv>>
storeVars == <<localFiles, localDirs, bucket, syncLog,
               opc, stop, blocked, sleepLeft, obsLog>>
observeVars == <<opc, stop, blocked, sleepLeft, obsLog>>
queryVars == <<req, resp, setup>>
writerVars == <<writer, outputDir>>

----------------------------------------------------------------------------
(* Bounds *)

MaxEvents == 3      \* file events and requests in one behaviour
MaxTime == 3        \* seconds the clock runs
MaxCalls == 4       \* calls made on the LRU cache in one behaviour
MaxSyncs == 2       \* runs of S3DataSync.sync in one behaviour

\* OidcVerifier builds LRUCache(capacity=1000, valid_secs=60); the model
\* runs the same class with a small capacity and a short validity
Capacity == 2
ValidSecs == 2

----------------------------------------------------------------------------
(* Program constants and the small universe of inputs *)

POS_DIVIDER == 10000000

Assemblies == {"GRCh37", "GRCh38"}
NoAssembly == "None"

DatasetIds == {"d1", "d2"}
NoDataset == "None"

\* fdp_config.catalogs: c1 is configured, c2 is only referenced by metadata
ConfiguredCatalogs == {"c1"}
CatalogIds == {"c1", "c2"}
NoCatalog == "None"

\* basenames, cut into tokens
MetadataYaml == <<"metadata", ".", "yaml">>
IndividualsParquet == <<"individuals", ".", "parquet">>
AlleleFreqChr10 == <<"allele-freq-", "chr", "1", ".", "0", ".", "parquet">>
IndividualsChr10 == <<"individuals-", "chr", "1", ".", "0", ".", "parquet">>
AlleleFreqNoGroup == <<"allele-freq-", "chr", ".", "parquet">>
OtherParquet == <<"other", ".", "parquet">>

ParquetNames == {IndividualsParquet, AlleleFreqChr10, IndividualsChr10}

TokLen(t) ==
    CASE t = "allele-freq-" -> 12
      [] t = "individuals-" -> 12
      [] t = "individuals" -> 11
      [] t = "metadata" -> 8
      [] t = "parquet" -> 7
      [] t = "other" -> 5
      [] t = "yaml" -> 4
      [] t = "chr" -> 3
      [] OTHER -> 1

NoPath == [dir |-> <<>>, name |-> <<>>]
MetadataPath(d) == [dir |-> <<d>>, name |-> MetadataYaml]
ParquetPath(d, a, n) == [dir |-> <<d, a>>, name |-> n]

\* the files of the data directory layout, two Parquet files in an assembly
\* directory whose names the registry does not index, and two files that
\* are not where the layout puts them
MetadataPaths == {MetadataPath(d) : d \in DatasetIds}
ParquetPaths == {ParquetPath(d, a, n) :
                   d \in DatasetIds, a \in Assemblies, n \in ParquetNames}
                \cup {ParquetPath("d1", "GRCh37", AlleleFreqNoGroup),
                      ParquetPath("d1", "GRCh37", OtherParquet)}
StrayPaths == {[dir |-> <<"d1", "sub">>, name |-> MetadataYaml],
               [dir |-> <<"d1">>, name |-> IndividualsParquet]}
Paths == MetadataPaths \cup ParquetPaths \cup StrayPaths

\* FdpDataset, reduced to the field the registry reads (catalog_id: str)
Props == {[catalog_id |-> c] : c \in CatalogIds}

\* query keys
Chroms == {"1"}
NoChrom == "None"
Positions == {999, 10000000}
NoPos == -1

----------------------------------------------------------------------------
(* Sequences and maps *)

InSeq(s, x) == \E i \in 1..Len(s) : s[i] = x

Range(s) == {s[i] : i \in 1..Len(s)}

\* Strings whose characters matter are sequences of characters; an optional
\* value is the empty set (None) or the set of its one value.
None == {}
Some(value) == {value}
ValueOf(optional) == CHOOSE value \in optional : TRUE

\* str.find: the 0-based index of the first occurrence, -1 without one
find(s, sub) ==
    LET hits == {i \in 0..(Len(s) - Len(sub)) :
                    SubSeq(s, i + 1, i + Len(sub)) = sub}
    IN IF hits = {} THEN -1
       ELSE CHOOSE i \in hits : \A j \in hits : i <= j

\* str.lstrip, str.rstrip and str.strip, of the given characters
RECURSIVE lstrip(_, _)
lstrip(s, chars) ==
    IF s # <<>> /\ Head(s) \in chars THEN lstrip(Tail(s), chars) ELSE s

RECURSIVE rstrip(_, _)
rstrip(s, chars) ==
    IF s # <<>> /\ s[Len(s)] \in chars
    THEN rstrip(SubSeq(s, 1, Len(s) - 1), chars)
    ELSE s

Whitespace == {" "}
strip(s) == lstrip(rstrip(s, Whitespace), Whitespace)

\* str.replace of one character by another
replace(s, old, new) == [i \in 1..Len(s) |-> IF s[i] = old THEN new ELSE s[i]]

\* str.split at a one-character separator
RECURSIVE split(_, _)
split(s, sep) ==
    LET pos == find(s, <<sep>>)
    IN IF pos = -1 THEN <<s>>
       ELSE <<SubSeq(s, 1, pos)>> \o split(SubSeq(s, pos + 2, Len(s)), sep)

\* str(n) of a non-negative int, and int(s) of a string of digits
DigitChars == <<"0", "1", "2", "3", "4", "5", "6", "7", "8", "9">>

RECURSIVE str(_)
str(n) ==
    IF n < 10 THEN <<DigitChars[n + 1]>>
    ELSE Append(str(n \div 10), DigitChars[(n % 10) + 1])

RECURSIVE int(_)
int(s) ==
    LET value == (CHOOSE i \in 1..10 : DigitChars[i] = s[Len(s)]) - 1
    IN IF Len(s) = 1 THEN value
       ELSE int(SubSeq(s, 1, Len(s) - 1)) * 10 + value

\* list.remove(x): drops the first element equal to x
RemoveFirst(s, x) ==
    LET i == CHOOSE k \in 1..Len(s) :
                 s[k] = x /\ \A j \in 1..(k - 1) : s[j] # x
    IN SubSeq(s, 1, i - 1) \o SubSeq(s, i + 1, Len(s))

\* s.rindex(t): the last position of token t, 0 when there is none
RIndexTok(s, t) ==
    IF InSeq(s, t)
    THEN CHOOSE k \in 1..Len(s) :
             s[k] = t /\ \A j \in (k + 1)..Len(s) : s[j] # t
    ELSE 0

RECURSIVE CharOffset(_, _)
\* the character index (0-based) at which token k of s starts
CharOffset(s, k) ==
    IF k <= 1 THEN 0 ELSE CharOffset(s, k - 1) + TokLen(s[k - 1])

MapPut(m, k, v) == [x \in (DOMAIN m) \cup {k} |-> IF x = k THEN v ELSE m[x]]
MapDel(m, k) == [x \in (DOMAIN m) \ {k} |-> m[x]]

basename(file_path) == file_path.name
dirname(file_path) == file_path.dir
parent_name(file_path) ==
    IF Len(file_path.dir) = 0 THEN "DATA_DIR"
    ELSE file_path.dir[Len(file_path.dir)]

----------------------------------------------------------------------------
(* DataRegistry (mini_node/data/registry.py) *)

NoProps == [catalog_id |-> NoCatalog]
NoFiles == [g \in {} |-> NoPath]

BeaconDataset(dataset_id) ==
    [dataset_id |-> dataset_id,
     individuals_parquet |-> NoPath,
     chr_group_files |-> NoFiles]

\* DataRegistry.__init__: catalogs from the configuration, all else empty.
\* fdp.catalog_datasets is total here: a missing key and an empty list are
\* read alike by every reader (catalog_datasets.get(key, [])).
EmptyRegistry ==
    [fdp |-> [catalogs |-> ConfiguredCatalogs,
              datasets |-> [d \in {} |-> NoProps],
              catalog_datasets |-> [c \in CatalogIds |-> <<>>]],
     aggregated_beacon |-> <<>>,
     sensitive_beacon |-> <<>>,
     problematic_files |-> {}]

BeaconNames == {"aggregated_beacon", "sensitive_beacon"}

\* position of the entry of assembly a in BeaconData.assemblies, 0 if absent
AssemblyPos(assemblies, a) ==
    IF \E i \in 1..Len(assemblies) : assemblies[i].assembly = a
    THEN CHOOSE i \in 1..Len(assemblies) : assemblies[i].assembly = a
    ELSE 0

\* position of the first BeaconDataset of dataset_id in a list, 0 if absent
DatasetPos(datasets, dataset_id) ==
    IF \E i \in 1..Len(datasets) : datasets[i].dataset_id = dataset_id
    THEN CHOOSE i \in 1..Len(datasets) :
             /\ datasets[i].dataset_id = dataset_id
             /\ \A j \in 1..(i - 1) : datasets[j].dataset_id # dataset_id
    ELSE 0

WithoutDataset(datasets, dataset_id) ==
    SelectSeq(datasets, LAMBDA d : d.dataset_id # dataset_id)

forget_issues_with(R, file_path) ==
    [R EXCEPT !.problematic_files = @ \ {file_path}]

record_issues_with(R, file_path) ==
    [R EXCEPT !.problematic_files = @ \cup {file_path}]

\* add_dataset without the "not already included in another catalogue" loop
add_dataset_keeps_old_listing(R, dataset_id, props) ==
    [R EXCEPT !.fdp.datasets = MapPut(@, dataset_id, props),
              !.fdp.catalog_datasets[props.catalog_id] = Append(@, dataset_id)]

add_dataset(R, dataset_id, props) ==
    LET R1 == [R EXCEPT !.fdp.datasets = MapPut(@, dataset_id, props)]
        catalog_id == props.catalog_id
        lists == R.fdp.catalog_datasets
        cleaned == [c \in DOMAIN lists |->
                      IF InSeq(lists[c], dataset_id)
                      THEN RemoveFirst(lists[c], dataset_id)
                      ELSE lists[c]]
        registered == [cleaned EXCEPT ![catalog_id] = Append(@, dataset_id)]
    IN IF catalog_id = NoCatalog
       THEN R1
       ELSE [R1 EXCEPT !.fdp.catalog_datasets = registered]

remove_dataset(R, dataset_id, also_beacon_data) ==
    LET lists == R.fdp.catalog_datasets
        cleaned == [c \in DOMAIN lists |->
                      IF InSeq(lists[c], dataset_id)
                      THEN RemoveFirst(lists[c], dataset_id)
                      ELSE lists[c]]
        R1 == [R EXCEPT !.fdp.catalog_datasets = cleaned,
                        !.fdp.datasets = MapDel(@, dataset_id)]
        purge(assemblies) ==
            [i \in 1..Len(assemblies) |->
                [assemblies[i] EXCEPT
                    !.datasets = WithoutDataset(@, dataset_id)]]
    IN IF ~also_beacon_data
       THEN R1
       ELSE [R1 EXCEPT !.aggregated_beacon = purge(@),
                       !.sensitive_beacon = purge(@)]

remove_beacon_dataset(R, dataset_id, assembly) ==
    LET purge(assemblies) ==
            [i \in 1..Len(assemblies) |->
                IF assemblies[i].assembly = assembly
                THEN [assemblies[i] EXCEPT
                        !.datasets = WithoutDataset(@, dataset_id)]
                ELSE assemblies[i]]
    IN [R EXCEPT !.aggregated_beacon = purge(@),
                 !.sensitive_beacon = purge(@)]

\* the BeaconData a basename belongs to ("None": non-standard name)
beacon_of(filename) ==
    IF Len(filename) > 0 /\ filename[1] = "allele-freq-"
    THEN "aggregated_beacon"
    ELSE IF Len(filename) > 0 /\ filename[1] = "individuals-"
    THEN "sensitive_beacon"
    ELSE IF filename = IndividualsParquet
    THEN "sensitive_beacon"
    ELSE "None"

\* _resolve_beacon_dataset: the BeaconDataset object is returned as its
\* place (beacon, assembly, pos) in the registry value `data`, which holds
\* the assembly entry and the BeaconDataset the method may have created.
resolve_beacon_dataset(R, filename, assembly, dataset_id) ==
    LET b == beacon_of(filename)
        none == [beacon |-> "None", assembly |-> NoAssembly, pos |-> 0,
                 data |-> R]
    IN IF b = "None" THEN none
       ELSE IF assembly # NoAssembly
       THEN LET bd0 == R[b]
                bd1 == IF AssemblyPos(bd0, assembly) = 0
                       THEN Append(bd0, [assembly |-> assembly,
                                         datasets |-> <<>>])
                       ELSE bd0
                ap == AssemblyPos(bd1, assembly)
                bd2 == IF DatasetPos(bd1[ap].datasets, dataset_id) = 0
                       THEN [bd1 EXCEPT ![ap].datasets =
                                Append(@, BeaconDataset(dataset_id))]
                       ELSE bd1
            IN [beacon |-> b, assembly |-> assembly,
                pos |-> DatasetPos(bd2[ap].datasets, dataset_id),
                data |-> [R EXCEPT ![b] = bd2]]
       ELSE LET bd == R[b]
                hits == {i \in 1..Len(bd) :
                            DatasetPos(bd[i].datasets, dataset_id) # 0}
                ap == CHOOSE i \in hits : \A j \in hits : i <= j
            IN IF hits = {} THEN none
               ELSE [beacon |-> b, assembly |-> bd[ap].assembly,
                     pos |-> DatasetPos(bd[ap].datasets, dataset_id),
                     data |-> R]

\* the BeaconDataset a resolved target denotes, and its replacement
TargetDataset(t) ==
    LET bd == t.data[t.beacon]
    IN bd[AssemblyPos(bd, t.assembly)].datasets[t.pos]

SetTargetDataset(t, dataset) ==
    LET bd == t.data[t.beacon]
        ap == AssemblyPos(bd, t.assembly)
    IN [t.data EXCEPT ![t.beacon] =
            [bd EXCEPT ![ap].datasets = [@ EXCEPT ![t.pos] = dataset]]]

\* _resolve_chr_group: "ok" with the group, "none" (returns None), or
\* "raise" (str.rindex raises ValueError when the substring is absent)
resolve_chr_group(filename) ==
    LET i == RIndexTok(filename, "chr")
        j == RIndexTok(filename, ".")
        start == CharOffset(filename, i) + 3
        end == CharOffset(filename, j)
    IN IF i = 0 \/ j = 0
       THEN [kind |-> "raise", group |-> <<>>]
       ELSE IF 0 < start /\ start < end
       THEN [kind |-> "ok", group |-> SubSeq(filename, i + 1, j - 1)]
       ELSE [kind |-> "none", group |-> <<>>]

\* add_parquet that indexes files of registered datasets only
add_parquet_after_metadata(R, dataset_id, assembly, file_path) ==
    LET filename == basename(file_path)
        t == resolve_beacon_dataset(R, filename, assembly, dataset_id)
        g == resolve_chr_group(filename)
    IN IF dataset_id \notin DOMAIN R.fdp.datasets THEN R
       ELSE IF t.beacon = "None" THEN R
       ELSE IF filename = IndividualsParquet
       THEN SetTargetDataset(t, [TargetDataset(t) EXCEPT
                                    !.individuals_parquet = file_path])
       ELSE IF g.kind # "ok" THEN t.data
       ELSE SetTargetDataset(t, [TargetDataset(t) EXCEPT
                !.chr_group_files = MapPut(@, g.group, file_path)])

add_parquet(R, dataset_id, assembly, file_path) ==
    LET filename == basename(file_path)
        t == resolve_beacon_dataset(R, filename, assembly, dataset_id)
        g == resolve_chr_group(filename)
    IN IF t.beacon = "None" THEN R
       ELSE IF filename = IndividualsParquet
       THEN SetTargetDataset(t, [TargetDataset(t) EXCEPT
                                    !.individuals_parquet = file_path])
       ELSE IF g.kind # "ok" THEN t.data
       ELSE SetTargetDataset(t, [TargetDataset(t) EXCEPT
                !.chr_group_files = MapPut(@, g.group, file_path)])

remove_parquet(R, dataset_id, file_path) ==
    LET filename == basename(file_path)
        assembly == parent_name(file_path)
        t == resolve_beacon_dataset(R, filename, assembly, dataset_id)
        g == resolve_chr_group(filename)
        d0 == TargetDataset(t)
        d1 == IF filename = IndividualsParquet
              THEN [d0 EXCEPT !.individuals_parquet = NoPath]
              ELSE IF g.kind = "ok"
              THEN [d0 EXCEPT !.chr_group_files = MapDel(@, g.group)]
              ELSE d0
        R1 == SetTargetDataset(t, d1)
    IN IF assembly \notin Assemblies THEN R    \* BeaconAssembly(...) raises
       ELSE IF t.beacon = "None" THEN R
       ELSE IF filename # IndividualsParquet /\ g.kind = "raise"
       THEN t.data                             \* ValueError out of rindex
       ELSE IF d1.individuals_parquet = NoPath
               /\ DOMAIN d1.chr_group_files = {}
       THEN remove_beacon_dataset(R1, dataset_id, assembly)
       ELSE R1

\* f"{chrom}.{group}" with group = pos // POS_DIVIDER
IntStr(n) == CASE n = 0 -> "0" [] n = 1 -> "1" [] n = 2 -> "2" [] OTHER -> "n"
chr_group_of(chrom, pos) == <<chrom, ".", IntStr(pos \div POS_DIVIDER)>>

\* BeaconData.get_dataset_files: dataset_id -> allele-freq file
get_dataset_files(assemblies, assembly, chrom, pos) ==
    LET ap == AssemblyPos(assemblies, assembly)
        chr_group == chr_group_of(chrom, pos)
        datasets == assemblies[ap].datasets
        found == {i \in 1..Len(datasets) :
                     chr_group \in DOMAIN datasets[i].chr_group_files}
        last_of(id) == CHOOSE i \in found :
                           /\ datasets[i].dataset_id = id
                           /\ \A j \in found :
                                 datasets[j].dataset_id = id => j <= i
    IN IF ap = 0 THEN NoFiles
       ELSE [id \in {datasets[i].dataset_id : i \in found} |->
                datasets[last_of(id)].chr_group_files[chr_group]]

\* BeaconData.get_dataset_ids (as a set; the code returns it sorted)
get_dataset_ids(assemblies) ==
    UNION {{assemblies[i].datasets[k].dataset_id :
               k \in 1..Len(assemblies[i].datasets)} :
           i \in 1..Len(assemblies)}

NoIndividuals == [id \in {} |-> <<NoPath, NoPath>>]

\* BeaconData.get_dataset_individuals: dataset_id -> (individuals.parquet,
\* per-chr_group file).  The loops visit every assembly in insertion order
\* and every dataset of it in list order; a later visit of the same
\* dataset_id overwrites the entry of an earlier one.
get_dataset_individuals(assemblies, assembly, chrom, pos) ==
    LET keyed == assembly # NoAssembly /\ chrom # NoChrom /\ pos # NoPos
        chr_group == chr_group_of(chrom, pos)
        passes(d) == /\ d.individuals_parquet # NoPath
                     /\ keyed => chr_group \in DOMAIN d.chr_group_files
        hits == {x \in UNION {{<<i, k>> : k \in 1..Len(assemblies[i].datasets)}
                              : i \in 1..Len(assemblies)} :
                    passes(assemblies[x[1]].datasets[x[2]])}
        id_of(x) == assemblies[x[1]].datasets[x[2]].dataset_id
        later(x, y) == x[1] > y[1] \/ (x[1] = y[1] /\ x[2] >= y[2])
        winner(id) == CHOOSE x \in hits :
                          /\ id_of(x) = id
                          /\ \A y \in hits : id_of(y) = id => later(x, y)
        entry(d) == <<d.individuals_parquet,
                      IF keyed THEN d.chr_group_files[chr_group] ELSE NoPath>>
    IN IF assembly # NoAssembly /\ AssemblyPos(assemblies, assembly) = 0
       THEN NoIndividuals
       ELSE [id \in {id_of(x) : x \in hits} |->
                entry(assemblies[winner(id)[1]].datasets[winner(id)[2]])]

----------------------------------------------------------------------------
(* RegistryUpdater (mini_node/data/fs.py) *)

\* what reading and parsing a metadata.yaml gives: an FdpDataset or an error
NoParse == [ok |-> FALSE, props |-> NoProps]
Parses == {[ok |-> TRUE, props |-> p] : p \in Props} \cup {NoParse}

\* only a metadata.yaml is parsed
ParsesOf(file_path) ==
    IF file_path.name = MetadataYaml THEN Parses ELSE {NoParse}

has_parquet_suffix(file_path) ==
    LET n == file_path.name
    IN Len(n) >= 2 /\ n[Len(n) - 1] = "." /\ n[Len(n)] = "parquet"

\* _resolve_dataset: the parent of the file's directory must be DATA_DIR
resolve_dataset(file_path) ==
    IF Len(file_path.dir) = 1 THEN file_path.dir[1] ELSE NoDataset

\* _resolve_dataset_assembly: <<dataset_id, assembly>> or <<None, None>>
resolve_dataset_assembly(file_path) ==
    IF parent_name(file_path) \notin Assemblies
    THEN <<NoDataset, NoAssembly>>
    ELSE IF Len(file_path.dir) # 2
    THEN <<NoDataset, NoAssembly>>
    ELSE <<file_path.dir[1], file_path.dir[2]>>

on_new_metadata(R, file_path, parse) ==
    LET dataset_id == resolve_dataset(file_path)
    IN IF dataset_id = NoDataset THEN R
       ELSE IF parse.ok THEN add_dataset(R, dataset_id, parse.props)
       ELSE record_issues_with(R, file_path)

on_removed_metadata(R, file_path) ==
    LET dataset_id == resolve_dataset(file_path)
    IN IF dataset_id = NoDataset THEN R
       ELSE remove_dataset(forget_issues_with(R, file_path), dataset_id, TRUE)

on_new_parquet(R, file_path) ==
    LET da == resolve_dataset_assembly(file_path)
    IN IF da[1] = NoDataset THEN R
       ELSE add_parquet(R, da[1], da[2], file_path)

on_removed_parquet(R, file_path) ==
    LET da == resolve_dataset_assembly(file_path)
    IN IF da[1] = NoDataset THEN R
       ELSE remove_parquet(forget_issues_with(R, file_path), da[1], file_path)

on_new_file(R, file_path, parse) ==
    IF file_path.name = MetadataYaml THEN on_new_metadata(R, file_path, parse)
    ELSE IF has_parquet_suffix(file_path) THEN on_new_parquet(R, file_path)
    ELSE R

on_removed_file(R, file_path) ==
    IF file_path.name = MetadataYaml THEN on_removed_metadata(R, file_path)
    ELSE IF has_parquet_suffix(file_path) THEN on_removed_parquet(R, file_path)
    ELSE R

----------------------------------------------------------------------------
(* LRUCache and OidcVerifier.verify (mini_node/oidc.py) *)

\* bearer tokens: tA is valid until its exp (second 3) and tE until its exp
\* (second 1), tB and tD are valid and do not expire within the run, tC
\* does not verify, "short" is no JWT
Tokens == {"tA", "tB", "tC", "short"}
Keys == {"tA", "tB", "tC", "tD"}

TokenLen(token) ==
    IF token = "short" THEN 20 ELSE IF token = "" THEN 0 ELSE 300
TokenExp(token) == IF token = "tA" THEN 3 ELSE IF token = "tE" THEN 1 ELSE 1000

\* bearer tokens that carry a ga4gh_passport_v1 claim; they are signed by
\* the issuer, name the subject "alice" and do not expire within the run
PassportTokens == {"pA", "pAB", "pMixed", "pBad", "pExp", "pEmpty"}
TokenVerifies(token) == token \in {"tA", "tB", "tD", "tE"} \cup PassportTokens
TokenSub(token) == "alice"

\* a visa JWT: its sub and exp claims, whether its iat passes, its
\* ga4gh_visa_v1 claim (a dict, or a value that is none), whether its
\* header names a jku and whether its signature verifies with the key
\* fetched from there
NotADict == ("isinstance" :> "str")
Visa(sub, exp, iat, visa_obj, jku, signed) ==
    [sub |-> sub, exp |-> exp, iat |-> iat, visa_obj |-> visa_obj,
     jku |-> jku, signed |-> signed]
GrantsObj == ("type" :> "ControlledAccessGrants") @@ ("value" :> "ds1")
                @@ ("source" :> "ega")
ResearcherObj == ("type" :> "ResearcherStatus") @@ ("value" :> "yes")
                    @@ ("source" :> "ega")
Grants == Visa("alice", 1000, TRUE, GrantsObj, TRUE, TRUE)
Researcher == Visa("alice", 1000, TRUE, ResearcherObj, TRUE, TRUE)
FlawedVisas ==
    <<[Grants EXCEPT !.sub = "bob"], [Grants EXCEPT !.iat = FALSE],
      [Grants EXCEPT !.jku = FALSE], [Grants EXCEPT !.signed = FALSE],
      [Grants EXCEPT !.visa_obj = NotADict], [Grants EXCEPT !.exp = 0]>>

\* the ga4gh_passport_v1 claim of a token: a list of visas, <<>> when the
\* claim is missing or empty
TokenPassport(token) ==
    CASE token = "pA" -> <<Grants>>
      [] token = "pAB" -> <<Grants, Researcher>>
      [] token = "pMixed" ->
             <<[Grants EXCEPT !.signed = FALSE], Researcher, Grants>>
      [] token = "pBad" -> FlawedVisas \o <<Researcher>>
      [] token = "pExp" -> <<[Grants EXCEPT !.exp = 2], Researcher>>
      [] OTHER -> <<>>

\* required_visas of the configuration: a list of shapes (dicts)
GrantsShape == ("type" :> "ControlledAccessGrants") @@ ("value" :> "ds1")
ResearcherShape == ("type" :> "ResearcherStatus")
SourceShape == ("source" :> "ega")
RequiredVisas ==
    {<<>>, <<GrantsShape>>, <<GrantsShape, ResearcherShape>>,
     <<SourceShape>>, <<GrantsShape, GrantsShape>>}

\* _match_visa_claims: the expected shapes the visa's claim matches
match_visa_claims(visa_obj, expected_visas) ==
    IF visa_obj = NotADict THEN <<>>
    ELSE SelectSeq(expected_visas,
             LAMBDA visa_check :
                 \A claim \in DOMAIN visa_check :
                     /\ claim \in DOMAIN visa_obj
                     /\ visa_obj[claim] = visa_check[claim])

\* _verify_visa_signature
verify_visa_signature(visa_jwt) == visa_jwt.jku /\ visa_jwt.signed

\* for visa_check in matched_visas: expected_visas.remove(visa_check)
RECURSIVE remove_each(_, _)
remove_each(expected_visas, matched_visas) ==
    IF matched_visas = <<>> THEN expected_visas
    ELSE remove_each(RemoveFirst(expected_visas, Head(matched_visas)),
                     Tail(matched_visas))

\* _check_visa that does not compare the visa's subject with the token's
check_visa_any_subject(subject, visa_jwt, expected_visas, t) ==
    LET matched_visas == match_visa_claims(visa_jwt.visa_obj, expected_visas)
    IN IF visa_jwt.exp <= t \/ ~visa_jwt.iat THEN expected_visas
       ELSE IF Len(matched_visas) = 0 THEN expected_visas
       ELSE IF verify_visa_signature(visa_jwt)
       THEN remove_each(expected_visas, matched_visas)
       ELSE expected_visas

\* _check_visa: the expected shapes that are left after the visa
check_visa(subject, visa_jwt, expected_visas, t) ==
    LET matched_visas == match_visa_claims(visa_jwt.visa_obj, expected_visas)
    IN IF visa_jwt.exp <= t \/ ~visa_jwt.iat THEN expected_visas
       ELSE IF visa_jwt.sub # subject THEN expected_visas
       ELSE IF Len(matched_visas) = 0 THEN expected_visas
       ELSE IF verify_visa_signature(visa_jwt)
       THEN remove_each(expected_visas, matched_visas)
       ELSE expected_visas

\* _check_visas
RECURSIVE check_visas(_, _, _, _)
check_visas(subject, visa_jwts, expected_visas, t) ==
    IF visa_jwts = <<>> THEN FALSE
    ELSE LET left == check_visa(subject, Head(visa_jwts), expected_visas, t)
         IN IF Len(left) = 0 THEN TRUE
            ELSE check_visas(subject, Tail(visa_jwts), left, t)

\* _check_passport
check_passport(sub, passport_claim, required_visas, t) ==
    IF Len(required_visas) = 0 THEN TRUE
    ELSE IF Len(passport_claim) = 0 THEN FALSE
    ELSE check_visas(sub, passport_claim, required_visas, t)

\* jwt.decode with verify_exp, the `sub` check and _check_passport, as one
\* outcome: PyJWT rejects a token once exp <= now
decode_outcome(token, t, required_visas) ==
    IF TokenVerifies(token) /\ t < TokenExp(token)
          /\ check_passport(TokenSub(token), TokenPassport(token),
                            required_visas, t)
    THEN "True" ELSE "False"

\* the outcome for a verifier without required visas
jwt_outcome(token, t) == decode_outcome(token, t, <<>>)

KeyPos(data, key) ==
    IF \E i \in 1..Len(data) : data[i].key = key
    THEN CHOOSE i \in 1..Len(data) : data[i].key = key
    ELSE 0

KeysOf(data) == {data[i].key : i \in 1..Len(data)}

\* OrderedDict.move_to_end
MoveToEnd(data, i) ==
    SubSeq(data, 1, i - 1) \o SubSeq(data, i + 1, Len(data)) \o <<data[i]>>

\* LRUCache.get that drops an entry already at the age of valid_secs
lru_get_strict(data, key, t) ==
    LET i == KeyPos(data, key)
        moved == MoveToEnd(data, i)
    IN IF i = 0 THEN [value |-> "None", data |-> data]
       ELSE IF t - data[i].ts < ValidSecs
       THEN [value |-> data[i].valid, data |-> moved]
       ELSE [value |-> "None", data |-> SubSeq(moved, 1, Len(moved) - 1)]

\* LRUCache.get: the cached value ("None" for a miss) and the new contents
lru_get(data, key, t) ==
    LET i == KeyPos(data, key)
        moved == MoveToEnd(data, i)
    IN IF i = 0 THEN [value |-> "None", data |-> data]
       ELSE IF t - data[i].ts <= ValidSecs
       THEN [value |-> data[i].valid, data |-> moved]
       ELSE [value |-> "None", data |-> SubSeq(moved, 1, Len(moved) - 1)]

\* LRUCache.put with popitem() in place of popitem(last=False)
lru_put_pops_newest(data, key, value, t) ==
    LET entry == [key |-> key, valid |-> value, ts |-> t]
        i == KeyPos(data, key)
        set == IF i = 0 THEN Append(data, entry)
               ELSE [data EXCEPT ![i] = entry]
        moved == MoveToEnd(set, KeyPos(set, key))
    IN IF Len(moved) > Capacity
       THEN SubSeq(moved, 1, Len(moved) - 1)
       ELSE moved

\* LRUCache.put
lru_put(data, key, value, t) ==
    LET entry == [key |-> key, valid |-> value, ts |-> t]
        i == KeyPos(data, key)
        set == IF i = 0 THEN Append(data, entry)
               ELSE [data EXCEPT ![i] = entry]
        moved == MoveToEnd(set, KeyPos(set, key))
    IN IF Len(moved) > Capacity THEN Tail(moved) ELSE moved

\* OidcVerifier.verify: the answer, whether the token was decoded, and the
\* new cache contents
verify_token(data, token, t, required_visas) ==
    LET cached == lru_get(data, token, t)
        valid == decode_outcome(token, t, required_visas)
    IN IF TokenLen(token) <= 100
       THEN [result |-> "False", decoded |-> FALSE, data |-> data]
       ELSE IF cached.value # "None"
       THEN [result |-> cached.value, decoded |-> FALSE,
             data |-> cached.data]
       ELSE [result |-> valid, decoded |-> TRUE,
             data |-> lru_put(cached.data, token, valid, t)]

\* verify of a verifier without required visas
verify(data, token, t) == verify_token(data, token, t, <<>>)

Call(op, key, result, decoded, age) ==
    [op |-> op, key |-> key, result |-> result, decoded |-> decoded,
     age |-> age]
NoCall == Call("none", "None", "None", FALSE, -1)

\* seconds since the entry of key was stored, -1 when there is none
AgeOf(data, key, t) ==
    IF KeyPos(data, key) = 0 THEN -1 ELSE t - data[KeyPos(data, key)].ts


----------------------------------------------------------------------------
(* Request handlers: what they do to the registry *)

\* read_parquet (beacon/service/_parquet.py) and _read_parquet
\* (beacon/service/allele_freq.py): forget the file's issue, then read;
\* a failing read records the issue again.
\* read_parquet dropping a file that cannot be read from the index
read_parquet_unindexing(R, parquet_file, ok) ==
    IF ok THEN forget_issues_with(R, parquet_file)
    ELSE record_issues_with(
             remove_parquet(R, parquet_file.dir[1], parquet_file),
             parquet_file)

read_parquet(R, parquet_file, ok) ==
    IF ok THEN forget_issues_with(R, parquet_file)
    ELSE record_issues_with(forget_issues_with(R, parquet_file), parquet_file)

RECURSIVE read_all(_, _, _)
read_all(R, files, failing) ==
    IF files = {} THEN R
    ELSE LET f == CHOOSE x \in files : TRUE
         IN read_all(read_parquet(R, f, f \notin failing),
                     files \ {f}, failing)

FnRange(f) == {f[x] : x \in DOMAIN f}

\* find_datasets_allele_frequencies: one read per file of the query key
af_files(R, assembly, chrom, pos) ==
    FnRange(get_dataset_files(R.aggregated_beacon, assembly, chrom, pos))

find_datasets_allele_frequencies(R, assembly, chrom, pos, failing) ==
    read_all(R, af_files(R, assembly, chrom, pos), failing)

\* get_results_from_individuals_parquet: filter_individuals reads the
\* individuals.parquet of every dataset that has one
individuals_files(R) ==
    {e[1] : e \in FnRange(get_dataset_individuals(
                      R.sensitive_beacon, NoAssembly, NoChrom, NoPos))}

get_results_from_individuals_parquet(R, failing) ==
    read_all(R, individuals_files(R), failing)

\* get_results_from_variants: per dataset the per-chr_group file is read;
\* the datasets in `second` are those whose variant row was found and whose
\* individuals.parquet filter_individuals then reads
get_results_from_variants(R, assembly, chrom, pos, failing, second) ==
    LET found == get_dataset_individuals(R.sensitive_beacon,
                                         assembly, chrom, pos)
        files == {found[id][2] : id \in DOMAIN found}
                 \cup {found[id][1] : id \in second}
    IN read_all(R, files, failing)

----------------------------------------------------------------------------
(* The node: file events applied by the monitor thread, and requests *)

Op(op, id, path, flag) == [op |-> op, id |-> id, path |-> path, flag |-> flag]
NoOp == Op("none", NoDataset, NoPath, FALSE)

\* observe() has not been called
NoObserve == [failed |-> FALSE, handledAfterFailure |-> FALSE,
              event |-> "none"]
ObserveIdle ==
    /\ opc = "idle"
    /\ stop = FALSE
    /\ blocked = 0
    /\ sleepLeft = 0
    /\ obsLog = NoObserve

\* nothing synchronised yet; `changed`: the bucket has changed since the
\* latest run, `worked`: the run before the latest one downloaded a file
NoSync == [op |-> "none", downloads |-> {}, removed |-> {}, runs |-> 0,
           changed |-> FALSE, worked |-> FALSE]

HandlerOps == {"g_variants", "individuals", "datasets", "fdp", "status"}

RegistryIdle ==
    /\ DATA = EmptyRegistry
    /\ last = NoOp
    /\ nev = 0
    /\ failedLast = {}

\* parquet-writer: the chromosomes and positions of the variants it reads
\* (groups 0 and 1), and the names of the files it writes,
\* <prefix><chrom>.<group>.parquet, as the pair of chromosome and group
WriterChroms == {"1", "2"}
WriterPositions == {5, POS_DIVIDER + 5}
NoGroup == -1
ParquetFile(chr_id, group_num) == <<chr_id, group_num>>
ParquetFiles == {ParquetFile(c, g) : c \in WriterChroms, g \in {0, 1}}

\* ParquetVcfWriter.__init__; buf is len(self._buf)
NewWriter ==
    [chr_id |-> NoChrom, group_num |-> NoGroup, pos |-> 0, buf |-> 0,
     finished_chr_ids |-> {}, parquet_files |-> {}, total_row_count |-> 0,
     raised |-> "None"]

\* the destination directory: its files, how often pq.write_table has
\* written each path, and the paths written while the file was there
Directory(files) ==
    [files |-> files, writes |-> [f \in ParquetFiles |-> 0], overwritten |-> {}]

\* ParquetVcfWriter._write_table
write_table(w, dir) ==
    LET file_path == ParquetFile(w.chr_id, w.group_num)
    IN IF w.buf = 0 THEN [writer |-> w, dir |-> dir]
       ELSE [writer |-> [w EXCEPT !.total_row_count = @ + w.buf,
                                  !.parquet_files = @ \cup {file_path},
                                  !.buf = 0],
             dir |-> [files |-> dir.files \cup {file_path},
                      writes |-> [dir.writes EXCEPT ![file_path] = @ + 1],
                      overwritten |->
                          IF file_path \in dir.files
                          THEN dir.overwritten \cup {file_path}
                          ELSE dir.overwritten]]

\* ParquetVcfWriter.at_chr_pos
at_chr_pos(w, dir, chr_id, pos) ==
    LET first == [w EXCEPT !.chr_id = IF @ = NoChrom THEN chr_id ELSE @]
        group_num == pos \div POS_DIVIDER
        placed == [first EXCEPT !.pos = pos,
                                !.group_num = IF @ = NoGroup THEN group_num ELSE @]
        written == write_table(placed, dir)
    IN IF first.chr_id = chr_id /\ first.pos > pos
       THEN [writer |-> [first EXCEPT !.raised = "RuntimeError"], dir |-> dir]
       ELSE IF placed.chr_id = chr_id /\ placed.group_num = group_num
       THEN [writer |-> placed, dir |-> dir]
       ELSE [writer |-> [written.writer EXCEPT
                           !.finished_chr_ids =
                               IF placed.chr_id # chr_id
                               THEN @ \cup {placed.chr_id} ELSE @,
                           !.chr_id = chr_id,
                           !.group_num = group_num],
             dir |-> written.dir]

\* no parquet-writer command has run
WriterIdle == writer = NewWriter /\ outputDir = Directory({})

OrderIdle == pending = {} /\ applied = {} /\ start0 = EmptyRegistry

\* no request has been served yet
NoRequest == [endpoint |-> "none"]
NoResponse == [status |-> 0]
\* a personality without oidc and basic blocks, with the default
\* hideLowerCounts and no default granularity
NoSetup == [oidc_verifier |-> FALSE, required_visas |-> <<>>,
            basic_headers |-> {}, hide_lower_counts |-> 1,
            default_granularity |-> "None"]
QueryIdle == req = NoRequest /\ resp = NoResponse /\ setup = NoSetup

HandlerIdle == hpc = "idle" /\ hcat = NoCatalog /\ hidx = 0 /\ hid = NoDataset

OidcIdle ==
    /\ lru = <<>>
    /\ now = 0
    /\ calls = 0
    /\ lastUse = [k \in Keys |-> 0]
    /\ inserted = [k \in Keys |-> 0]
    /\ onlyFresh = TRUE
    /\ lastv = NoCall

StoreIdle ==
    /\ localFiles = <<>>
    /\ localDirs = {}
    /\ bucket = <<>>
    /\ syncLog = NoSync
    /\ ObserveIdle

Init ==
    RegistryIdle /\ OrderIdle /\ WriterIdle /\ HandlerIdle /\ OidcIdle /\ StoreIdle /\ QueryIdle

\* FileRegistryUpdater.on_modified -> RegistryUpdater.on_new_file
OnNewFile(file_path, parse) ==
    /\ nev < MaxEvents
    /\ DATA' = on_new_file(DATA, file_path, parse)
    /\ last' = Op("on_new_file", NoDataset, file_path, parse.ok)
    /\ nev' = nev + 1
    /\ failedLast' = IF file_path \in MetadataPaths
                     THEN IF parse.ok THEN failedLast \ {file_path}
                          ELSE failedLast \cup {file_path}
                     ELSE failedLast
    /\ UNCHANGED <<orderVars, writerVars, queryVars, handlerVars, oidcVars, storeVars>>

\* FileRegistryUpdater.on_deleted -> RegistryUpdater.on_removed_file
OnRemovedFile(file_path) ==
    /\ nev < MaxEvents
    /\ DATA' = on_removed_file(DATA, file_path)
    /\ last' = Op("on_removed_file", NoDataset, file_path, FALSE)
    /\ nev' = nev + 1
    /\ failedLast' = failedLast \ {file_path}
    /\ UNCHANGED <<orderVars, writerVars, queryVars, handlerVars, oidcVars, storeVars>>

\* POST <base>/g_variants
GVariants(assembly, chrom, pos) ==
    /\ nev < MaxEvents
    /\ \E failing \in SUBSET af_files(DATA, assembly, chrom, pos) :
        /\ DATA' = find_datasets_allele_frequencies(
                       DATA, assembly, chrom, pos, failing)
        /\ last' = Op("g_variants", NoDataset, NoPath, failing # {})
        /\ failedLast' = (failedLast \ af_files(DATA, assembly, chrom, pos))
                         \cup failing
        /\ nev' = nev + 1
        /\ UNCHANGED <<orderVars, writerVars, queryVars, handlerVars, oidcVars, storeVars>>

\* POST <base>/individuals without variant parameters
IndividualsAll ==
    /\ nev < MaxEvents
    /\ \E failing \in SUBSET individuals_files(DATA) :
        /\ DATA' = get_results_from_individuals_parquet(DATA, failing)
        /\ last' = Op("individuals", NoDataset, NoPath, failing # {})
        /\ failedLast' = (failedLast \ individuals_files(DATA)) \cup failing
        /\ nev' = nev + 1
        /\ UNCHANGED <<orderVars, writerVars, queryVars, handlerVars, oidcVars, storeVars>>

\* POST <base>/individuals with sufficient variant parameters
IndividualsByVariant(assembly, chrom, pos) ==
    LET found == get_dataset_individuals(DATA.sensitive_beacon,
                                         assembly, chrom, pos)
        vfiles == {found[id][2] : id \in DOMAIN found}
    IN nev < MaxEvents /\
       \E vfailing \in SUBSET vfiles :
       \E second \in SUBSET {id \in DOMAIN found :
                                found[id][2] \notin vfailing} :
       \E ifailing \in SUBSET {found[id][1] : id \in second} :
        /\ DATA' = get_results_from_variants(DATA, assembly, chrom, pos,
                                             vfailing \cup ifailing, second)
        /\ last' = Op("individuals", NoDataset, NoPath, (vfailing \cup ifailing) # {})
        /\ failedLast' =
              (failedLast \ (vfiles \cup {found[id][1] : id \in second}))
              \cup vfailing \cup ifailing
        /\ nev' = nev + 1
        /\ UNCHANGED <<orderVars, writerVars, queryVars, handlerVars, oidcVars, storeVars>>

\* POST <base>/datasets, the FDP endpoints and GET /: they call no
\* registry method other than the getters
ReadOnlyRequest(op) ==
    /\ nev < MaxEvents
    /\ DATA' = DATA
    /\ last' = Op(op, NoDataset, NoPath, FALSE)
    /\ nev' = nev + 1
    /\ UNCHANGED <<failedLast, orderVars, writerVars, queryVars, handlerVars, oidcVars, storeVars>>

Next ==
    \/ \E p \in Paths : \E parse \in ParsesOf(p) : OnNewFile(p, parse)
    \/ \E p \in Paths : OnRemovedFile(p)
    \/ \E a \in Assemblies, c \in Chroms, pos \in Positions :
           GVariants(a, c, pos)
    \/ IndividualsAll
    \/ \E a \in Assemblies, c \in Chroms, pos \in Positions :
           IndividualsByVariant(a, c, pos)
    \/ \E op \in {"datasets", "fdp", "status"} : ReadOnlyRequest(op)

Spec == Init /\ [][Next]_vars

----------------------------------------------------------------------------
(* The FDP side of the registry, driven through its two methods *)

ApiDatasetIds == DatasetIds \cup {"d3"}

\* last.flag: the dataset was registered under another catalog before
ApiAddDataset(dataset_id, props) ==
    /\ DATA' = add_dataset(DATA, dataset_id, props)
    /\ last' = Op("add_dataset", dataset_id, NoPath,
                  /\ dataset_id \in DOMAIN DATA.fdp.datasets
                  /\ DATA.fdp.datasets[dataset_id].catalog_id
                        # props.catalog_id)
    /\ UNCHANGED <<nev, failedLast, orderVars, writerVars, queryVars, handlerVars, oidcVars,
                   storeVars>>

ApiRemoveDataset(dataset_id, also_beacon_data) ==
    /\ DATA' = remove_dataset(DATA, dataset_id, also_beacon_data)
    /\ last' = Op("remove_dataset", dataset_id, NoPath, also_beacon_data)
    /\ UNCHANGED <<nev, failedLast, orderVars, writerVars, queryVars, handlerVars, oidcVars,
                   storeVars>>

NextFdp ==
    \/ \E id \in ApiDatasetIds, props \in Props : ApiAddDataset(id, props)
    \/ \E id \in ApiDatasetIds, flag \in BOOLEAN : ApiRemoveDataset(id, flag)

SpecFdp == Init /\ [][NextFdp]_vars

----------------------------------------------------------------------------
(* One dataset's "created" events, applied in any order *)

Event(file_path, parse) == [path |-> file_path, parse |-> parse]

\* the Parquet files of dataset d1, in both assembly directories
D1ParquetEvents ==
    {Event(f, NoParse) : f \in {g \in ParquetPaths : g.dir[1] = "d1"}}

D1MetadataEvents == {Event(MetadataPath("d1"), parse) : parse \in Parses}

\* a registry that already holds another dataset
PriorRegistry ==
    add_parquet(
        add_parquet(
            add_dataset(EmptyRegistry, "d2", [catalog_id |-> "c1"]),
            "d2", "GRCh38", ParquetPath("d2", "GRCh38", IndividualsParquet)),
        "d2", "GRCh38", ParquetPath("d2", "GRCh38", AlleleFreqChr10))

InitOrder ==
    /\ start0 \in {EmptyRegistry, PriorRegistry}
    /\ DATA = start0
    /\ \E m \in D1MetadataEvents : pending = {m} \cup D1ParquetEvents
    /\ applied = {}
    /\ last = NoOp
    /\ nev = 0
    /\ failedLast = {}
    /\ HandlerIdle
    /\ OidcIdle
    /\ QueryIdle
    /\ StoreIdle
    /\ WriterIdle

ApplyPending(e) ==
    /\ e \in pending
    /\ DATA' = on_new_file(DATA, e.path, e.parse)
    /\ pending' = pending \ {e}
    /\ applied' = applied \cup {e}
    /\ last' = Op("on_new_file", NoDataset, e.path, e.parse.ok)
    /\ UNCHANGED <<nev, failedLast, start0, queryVars, handlerVars, oidcVars,
                   storeVars, writerVars>>

NextOrder == \E e \in pending : ApplyPending(e)

SpecOrder == InitOrder /\ [][NextOrder]_vars

----------------------------------------------------------------------------
(* A request handler that walks a catalog's dataset list (get_status in   *)
(* mini_node/api.py, get_catalog_info in fdp/service/_data.py) while the  *)
(* monitor thread applies metadata events.  No lock is taken on either    *)
(* side; a step is one list or dict operation of the handler, or one      *)
(* whole event of the monitor.                                            *)

\* for key, catalog in DATA.fdp.catalogs.items(): / catalogs.get(catalog_id)
HandlerStart(c) ==
    /\ hpc = "idle"
    /\ c \in DATA.fdp.catalogs
    /\ hpc' = "next"
    /\ hcat' = c
    /\ hidx' = 0
    /\ hid' = NoDataset
    /\ UNCHANGED <<registryVars, orderVars, writerVars, queryVars, oidcVars, storeVars>>

\* for dataset_id in DATA.fdp.catalog_datasets.get(key, []): the iterator
\* of the live list yields its next element, or the loop ends
HandlerNext ==
    /\ hpc = "next"
    /\ LET ids == DATA.fdp.catalog_datasets[hcat]
       IN IF hidx < Len(ids)
          THEN /\ hid' = ids[hidx + 1]
               /\ hidx' = hidx + 1
               /\ hpc' = "lookup"
               /\ hcat' = hcat
          ELSE /\ hid' = NoDataset
               /\ hidx' = 0
               /\ hpc' = "idle"
               /\ hcat' = NoCatalog
    /\ UNCHANGED <<registryVars, orderVars, writerVars, queryVars, oidcVars, storeVars>>

\* dataset = DATA.fdp.datasets[dataset_id] (KeyError when missing), and
\* DATA.fdp.datasets.get(dataset_id).updated (AttributeError on None)
HandlerLookup ==
    /\ hpc = "lookup"
    /\ hpc' = IF hid \in DOMAIN DATA.fdp.datasets THEN "next" ELSE "failed"
    /\ UNCHANGED <<hcat, hidx, hid, registryVars, orderVars, writerVars, queryVars, oidcVars,
                   storeVars>>

\* the exception ends the request
HandlerFailed ==
    /\ hpc = "failed"
    /\ hpc' = "idle"
    /\ hcat' = NoCatalog
    /\ hidx' = 0
    /\ hid' = NoDataset
    /\ UNCHANGED <<registryVars, orderVars, writerVars, queryVars, oidcVars, storeVars>>

NextReaders ==
    \/ \E p \in MetadataPaths : \E parse \in Parses : OnNewFile(p, parse)
    \/ \E p \in MetadataPaths : OnRemovedFile(p)
    \/ \E c \in CatalogIds : HandlerStart(c)
    \/ HandlerNext
    \/ HandlerLookup
    \/ HandlerFailed

SpecReaders == Init /\ [][NextReaders]_vars

----------------------------------------------------------------------------
(* The token cache in time *)

\* time passes
Tick ==
    /\ now < MaxTime
    /\ now' = now + 1
    /\ UNCHANGED <<lru, calls, lastUse, inserted, onlyFresh, lastv,
                   registryVars, orderVars, writerVars, queryVars, handlerVars, storeVars>>

\* a request presents a bearer token
Verify(token) ==
    LET r == verify_token(lru, token, now, setup.required_visas)
    IN /\ lru' = r.data
       /\ lastv' = Call("verify", token, r.result, r.decoded,
                        AgeOf(lru, token, now))
       /\ UNCHANGED <<now, calls, lastUse, inserted, onlyFresh,
                      registryVars, orderVars, writerVars, queryVars, handlerVars, storeVars>>

NextOidc == Tick \/ \E token \in Tokens : Verify(token)

SpecOidc == Init /\ [][NextOidc]_vars

\* a personality whose oidc block lists required visas (or none), and
\* requests that present tokens with passports
InitVisa ==
    /\ RegistryIdle
    /\ OrderIdle /\ WriterIdle
    /\ HandlerIdle
    /\ OidcIdle
    /\ StoreIdle
    /\ req = NoRequest
    /\ resp = NoResponse
    /\ \E required_visas \in RequiredVisas :
          setup = [NoSetup EXCEPT !.oidc_verifier = TRUE,
                                  !.required_visas = required_visas]

NextVisa == Tick \/ \E token \in PassportTokens : Verify(token)

SpecVisa == InitVisa /\ [][NextVisa]_vars

----------------------------------------------------------------------------
(* Authentication of the query endpoints: BeaconSetup.authenticate         *)
(* (beacon/setup.py) and the endpoints of beacon_router (api/router.py)    *)

\* an Authorization header, cut at its spaces (header.split(" ")); <<>> is
\* a request without the header
BasicCredential == <<"Basic", "dXNlcjpwdw==">>
Headers ==
    {<<>>, <<"Bearer">>, <<"Bearer", "">>, <<"bearer", "tB">>,
     <<"Bearer", "tB">>, <<"Bearer", "tB", "x">>, <<"Bearer", "tC">>,
     <<"Bearer", "short">>, <<"Bearer", "pA">>,
     BasicCredential, <<"Basic", "bad">>, <<"Basic">>}

\* what the oidc and basic blocks of a personality can give
Setups ==
    {NoSetup,
     [NoSetup EXCEPT !.oidc_verifier = TRUE],
     [NoSetup EXCEPT !.oidc_verifier = TRUE,
                     !.required_visas = <<GrantsShape>>],
     [NoSetup EXCEPT !.basic_headers = {BasicCredential}]}

\* authorization_header.startswith("Bearer ")
starts_with_bearer(authorization_header) ==
    Len(authorization_header) >= 2 /\ authorization_header[1] = "Bearer"

\* authenticate that takes every header beginning with "Bearer " as valid
authenticate_unverified(conf, authorization_header, data, t) ==
    LET bearer == starts_with_bearer(authorization_header)
        in_basic == authorization_header \in conf.basic_headers
    IN [auth_mode |-> IF conf.oidc_verifier /\ ~bearer THEN "Bearer"
                      ELSE IF conf.basic_headers # {} /\ ~in_basic
                      THEN "Basic"
                      ELSE "None",
        verified |-> FALSE,
        call |-> NoCall,
        data |-> data]

\* BeaconSetup.authenticate: the method to ask for ("None": accepted),
\* whether verify was called, that call, and the verifier's cache
authenticate(conf, authorization_header, data, t) ==
    LET bearer == starts_with_bearer(authorization_header)
        token == authorization_header[2]
        verified == conf.oidc_verifier /\ bearer
        r == verify_token(data, token, t, conf.required_visas)
        valid == bearer /\ r.result = "True"
        in_basic == authorization_header \in conf.basic_headers
    IN [auth_mode |-> IF conf.oidc_verifier /\ ~valid THEN "Bearer"
                      ELSE IF conf.basic_headers # {} /\ ~in_basic
                      THEN "Basic"
                      ELSE "None",
        verified |-> verified,
        call |-> IF verified
                 THEN Call("verify", token, r.result, r.decoded,
                           AgeOf(data, token, t))
                 ELSE NoCall,
        data |-> IF verified THEN r.data ELSE data]

\* the query endpoints and the handler each of them returns with
Endpoints == {"g_variants", "datasets", "individuals"}
handler_of(endpoint) ==
    CASE endpoint = "g_variants" -> "handle_af_lookup"
      [] endpoint = "datasets" -> "handle_datasets"
      [] endpoint = "individuals" -> "handle_individuals_count"

\* the endpoint's answer when authenticate asks for a method, and the call
\* of the handler otherwise (status 0: the response is the handler's)
Unauthorized(auth_mode) ==
    [status |-> 401, www_authenticate |-> auth_mode, handler |-> "None"]
Handled(endpoint) ==
    [status |-> 0, www_authenticate |-> "None",
     handler |-> handler_of(endpoint)]

InitAuth ==
    /\ RegistryIdle
    /\ OrderIdle /\ WriterIdle
    /\ HandlerIdle
    /\ OidcIdle
    /\ StoreIdle
    /\ req = NoRequest
    /\ resp = NoResponse
    /\ setup \in Setups

\* search_variants, search_datasets, search_individuals up to the call of
\* their handler
Authenticate(endpoint, authorization_header) ==
    LET a == authenticate(setup, authorization_header, lru, now)
    IN /\ req' = [endpoint |-> endpoint,
                  authorization |-> authorization_header]
       /\ resp' = IF a.auth_mode = "None" THEN Handled(endpoint)
                  ELSE Unauthorized(a.auth_mode)
       /\ lru' = a.data
       /\ lastv' = a.call
       /\ UNCHANGED <<setup, now, calls, lastUse, inserted, onlyFresh,
                      registryVars, orderVars, writerVars, handlerVars, storeVars>>

NextAuth ==
    \/ Tick
    \/ \E e \in Endpoints, h \in Headers : Authenticate(e, h)

SpecAuth == InitAuth /\ [][NextAuth]_vars

\* the cache class on its own: any sequence of get and put
LruGet(key) ==
    LET r == lru_get(lru, key, now)
    IN /\ calls < MaxCalls
       /\ lru' = r.data
       /\ calls' = calls + 1
       /\ lastUse' = [k \in Keys |->
                        IF k \notin KeysOf(r.data) THEN 0
                        ELSE IF k = key THEN calls + 1 ELSE lastUse[k]]
       /\ inserted' = [k \in Keys |->
                        IF k \in KeysOf(r.data) THEN inserted[k] ELSE 0]
       /\ onlyFresh' = FALSE
       /\ lastv' = Call("get", key, r.value, FALSE, AgeOf(lru, key, now))
       /\ UNCHANGED <<now, registryVars, orderVars, writerVars, queryVars, handlerVars,
                      storeVars>>

LruPut(key, value) ==
    LET data == lru_put(lru, key, value, now)
    IN /\ calls < MaxCalls
       /\ lru' = data
       /\ calls' = calls + 1
       /\ lastUse' = [k \in Keys |->
                        IF k \notin KeysOf(data) THEN 0
                        ELSE IF k = key THEN calls + 1 ELSE lastUse[k]]
       /\ inserted' = [k \in Keys |->
                        IF k \notin KeysOf(data) THEN 0
                        ELSE IF k = key /\ k \notin KeysOf(lru)
                        THEN calls + 1 ELSE inserted[k]]
       /\ onlyFresh' = (onlyFresh /\ key \notin KeysOf(lru))
       /\ lastv' = Call("put", key, value, FALSE, AgeOf(lru, key, now))
       /\ UNCHANGED <<now, registryVars, orderVars, writerVars, queryVars, handlerVars,
                      storeVars>>

NextLru ==
    \/ Tick
    \/ \E key \in Keys : LruGet(key)
    \/ \E key \in Keys : LruPut(key, jwt_outcome(key, now))

SpecLru == Init /\ [][NextLru]_vars

----------------------------------------------------------------------------
(* S3DataSync (mini_node/data/s3.py) and monitor_files *)

\* what a file holds: it decides the size, the MD5 and what parsing gives
Contents == {"a", "b", "c"}
LocalContents == {"a", "b"}
SizeOf(content) == IF content = "c" THEN 2 ELSE 1
Md5Of(content) == <<"md5", content>>
MultipartETag(content) == <<"md5", content, "-", "2">>

\* bucket objects: the content, and an ETag that is its MD5 or multipart
S3Object(content, etag) == [content |-> content, etag |-> etag]
Objects == {S3Object("a", Md5Of("a")), S3Object("a", MultipartETag("a")),
            S3Object("c", Md5Of("c"))}

\* yaml.safe_load and FdpDataset(**yaml_data) of a file with this content
ParseOf(content) ==
    CASE content = "a" -> [ok |-> TRUE, props |-> [catalog_id |-> "c1"]]
      [] content = "b" -> [ok |-> TRUE, props |-> [catalog_id |-> "c2"]]
      [] OTHER -> NoParse

\* the object keys, as local paths, in the order list_objects gives them
SyncOrder == <<ParquetPath("d1", "GRCh37", AlleleFreqChr10),
               MetadataPath("d1"),
               ParquetPath("d2", "GRCh38", IndividualsParquet)>>
SyncPaths == Range(SyncOrder)

\* directories: the ones of the files, and two that hold no file
DirsOf(file_path) ==
    {SubSeq(file_path.dir, 1, k) : k \in 1..Len(file_path.dir)}
EmptyDirs == {<<"d3">>, <<"d3", "GRCh37">>}
MaxDepth == 2

\* any(path.iterdir())
HasEntries(fs, ds, d) ==
    \/ \E f \in DOMAIN fs : f.dir = d
    \/ \E sub \in ds : Len(sub) = Len(d) + 1 /\ SubSeq(sub, 1, Len(d)) = d

\* os.listdir(app_data_dir), in the order given
RECURSIVE scan_data_directory(_, _, _)
scan_data_directory(R, fs, listing) ==
    IF listing = <<>> THEN R
    ELSE LET dataset_id == Head(listing)
             metadata_file == MetadataPath(dataset_id)
             parse == ParseOf(fs[metadata_file])
             R1 == IF metadata_file \notin DOMAIN fs THEN R
                   ELSE IF parse.ok
                   THEN add_dataset(forget_issues_with(R, metadata_file),
                                    dataset_id, parse.props)
                   ELSE record_issues_with(
                            forget_issues_with(R, metadata_file),
                            metadata_file)
             parquet(a) == {f \in DOMAIN fs : /\ f.dir = <<dataset_id, a>>
                                              /\ has_parquet_suffix(f)}
             add(Q, a) == IF parquet(a) = {} THEN Q
                          ELSE add_parquet(Q, dataset_id, a,
                                           CHOOSE f \in parquet(a) : TRUE)
         IN scan_data_directory(add(add(R1, "GRCh37"), "GRCh38"), fs,
                                Tail(listing))

\* sync() that downloads every listed object
needs_download_always(fs, local_path, obj) == TRUE

\* the needs_download decision of sync()
needs_download(fs, local_path, obj) ==
    IF local_path \in DOMAIN fs
         /\ SizeOf(fs[local_path]) = SizeOf(obj.content)
    THEN IF obj.etag # <<>> /\ ~InSeq(obj.etag, "-")
         THEN Md5Of(fs[local_path]) # obj.etag
         ELSE FALSE
    ELSE TRUE

\* the state a sync() run works on
SyncState(R, fs, ds, downloads, removed) ==
    [R |-> R, fs |-> fs, ds |-> ds, downloads |-> downloads,
     removed |-> removed]

\* _download_file: fget_object, then on_new_file
download_file(T, local_path, obj) ==
    SyncState(on_new_file(T.R, local_path, ParseOf(obj.content)),
              MapPut(T.fs, local_path, obj.content), T.ds,
              T.downloads \cup {local_path}, T.removed)

\* the "Cleanup empty dirs" loop of _remove_file
RECURSIVE cleanup_empty_dirs(_, _, _)
cleanup_empty_dirs(fs, ds, parent) ==
    IF parent # <<>> /\ ~HasEntries(fs, ds, parent)
    THEN cleanup_empty_dirs(fs, ds \ {parent},
                            SubSeq(parent, 1, Len(parent) - 1))
    ELSE ds

\* _remove_file that does not tell the registry updater
remove_file_silently(T, file_path) ==
    SyncState(T.R, MapDel(T.fs, file_path),
              cleanup_empty_dirs(MapDel(T.fs, file_path), T.ds,
                                 file_path.dir),
              T.downloads, T.removed \cup {file_path})

\* _remove_file
remove_file(T, file_path) ==
    SyncState(on_removed_file(T.R, file_path), MapDel(T.fs, file_path),
              cleanup_empty_dirs(MapDel(T.fs, file_path), T.ds,
                                 file_path.dir),
              T.downloads, T.removed \cup {file_path})

\* the `for obj in objects` loop of sync()
RECURSIVE sync_objects(_, _, _)
sync_objects(T, objects, listing) ==
    IF listing = <<>> THEN T
    ELSE LET local_path == Head(listing)
             obj == objects[local_path]
             made == [T EXCEPT !.ds = @ \cup DirsOf(local_path)]
         IN sync_objects(IF needs_download(T.fs, local_path, obj)
                         THEN download_file(made, local_path, obj)
                         ELSE made,
                         objects, Tail(listing))

\* the "Remove stale local files" loop, in the order rglob gives the files
RECURSIVE remove_stale(_, _)
remove_stale(T, stale) ==
    IF stale = <<>> THEN T
    ELSE remove_stale(remove_file(T, Head(stale)), Tail(stale))

\* the "Remove empty directories" loop: deepest directories first
RECURSIVE remove_empty_dirs(_, _, _)
remove_empty_dirs(fs, ds, depth) ==
    IF depth = 0 THEN ds
    ELSE remove_empty_dirs(
             fs,
             {d \in ds : Len(d) # depth \/ HasEntries(fs, ds, d)},
             depth - 1)

\* S3DataSync.sync
sync(R, fs, ds, objects, staleOrder) ==
    LET listing == SelectSeq(SyncOrder, LAMBDA f : f \in DOMAIN objects)
        T1 == sync_objects(SyncState(R, fs, ds, {}, {}), objects, listing)
        T2 == remove_stale(T1, staleOrder)
    IN [T2 EXCEPT !.ds = remove_empty_dirs(T2.fs, T2.ds, MaxDepth)]

\* the orders in which a set can be walked
Orders(S) ==
    {o \in [1..Cardinality(S) -> S] :
        \A i, j \in 1..Cardinality(S) : o[i] = o[j] => i = j}

\* monitor_files up to the call of sync(): a data directory and a bucket,
\* and the registry scan_data_directory builds from the directory
InitSync ==
    /\ \E keep \in SUBSET SyncPaths :
         localFiles \in [keep -> LocalContents]
    /\ \E extra \in {{}, EmptyDirs} :
         localDirs = extra \cup UNION {DirsOf(f) : f \in DOMAIN localFiles}
    /\ \E listed \in SUBSET SyncPaths : bucket \in [listed -> Objects]
    /\ \E listing \in Orders(DatasetIds) :
         DATA = scan_data_directory(EmptyRegistry, localFiles, listing)
    /\ syncLog = NoSync
    /\ ObserveIdle
    /\ last = NoOp
    /\ nev = 0
    /\ failedLast = {}
    /\ OrderIdle /\ WriterIdle
    /\ HandlerIdle
    /\ OidcIdle
    /\ QueryIdle

\* monitor.sync()
Sync ==
    /\ syncLog.runs < MaxSyncs
    /\ \E staleOrder \in Orders(DOMAIN localFiles \ DOMAIN bucket) :
         LET T == sync(DATA, localFiles, localDirs, bucket, staleOrder)
         IN /\ DATA' = T.R
            /\ localFiles' = T.fs
            /\ localDirs' = T.ds
            /\ syncLog' = [op |-> "sync", downloads |-> T.downloads,
                           removed |-> T.removed,
                           runs |-> syncLog.runs + 1,
                           changed |-> FALSE,
                           worked |-> syncLog.downloads # {}]
    /\ UNCHANGED <<bucket, last, nev, failedLast, orderVars, writerVars, queryVars, handlerVars,
                   oidcVars, observeVars>>

\* someone uploads an object, or replaces one
BucketPut(key, obj) ==
    /\ bucket' = MapPut(bucket, key, obj)
    /\ bucket' # bucket
    /\ syncLog' = [syncLog EXCEPT !.changed = TRUE]
    /\ UNCHANGED <<localFiles, localDirs, registryVars, orderVars, writerVars, queryVars,
                   handlerVars, oidcVars, observeVars>>

\* someone deletes an object
BucketRemove(key) ==
    /\ key \in DOMAIN bucket
    /\ bucket' = MapDel(bucket, key)
    /\ syncLog' = [syncLog EXCEPT !.changed = TRUE]
    /\ UNCHANGED <<localFiles, localDirs, registryVars, orderVars, writerVars, queryVars,
                   handlerVars, oidcVars, observeVars>>

NextSync ==
    \/ Sync
    \/ \E key \in SyncPaths, obj \in Objects : BucketPut(key, obj)
    \/ \E key \in SyncPaths : BucketRemove(key)

SpecSync == InitSync /\ [][NextSync]_vars

----------------------------------------------------------------------------
(* S3DataSync.observe *)

\* TimeoutIterator(events, timeout=1.5) and time.sleep(60), in tenths of a
\* second
PollTimeoutTenths == 15
SleepTenths == 600

\* what can go wrong inside the try block
Failures == {"S3Error", "OSError", "ValueError"}
EventNames == {"s3:ObjectCreated:Put", "s3:ObjectRemoved:Delete"}

\* a handler `except S3Error` in place of `except Exception`
on_failure_s3_only(failure) ==
    IF failure = "S3Error" THEN "sleep" ELSE "raised"

\* `except Exception as exc`: log, then time.sleep(60)
on_failure(failure) == "sleep"

\* the body of `for record in event.get("Records", [])`; the failure, if
\* any, is raised by fget_object (S3Error), by the registry update
\* (ValueError) or by unlink (OSError)
handle_record(T, event_name, local_path, objects, failure) ==
    LET made == [T EXCEPT !.ds = @ \cup DirsOf(local_path)]
    IN IF event_name = "s3:ObjectCreated:Put"
       THEN IF failure = "S3Error" \/ local_path \notin DOMAIN objects
            THEN made
            ELSE IF failure = "ValueError"
            THEN [made EXCEPT
                    !.fs = MapPut(@, local_path, objects[local_path].content)]
            ELSE download_file(made, local_path, objects[local_path])
       ELSE IF local_path \notin DOMAIN T.fs THEN T
            ELSE IF failure = "ValueError" THEN T
            ELSE IF failure = "OSError"
            THEN [T EXCEPT !.R = on_removed_file(@, local_path)]
            ELSE remove_file(T, local_path)

\* whether that body raises
record_fails(T, event_name, local_path, objects, failure) ==
    IF event_name = "s3:ObjectCreated:Put"
    THEN failure \in {"S3Error", "ValueError"}
            \/ local_path \notin DOMAIN objects
    ELSE local_path \in DOMAIN T.fs /\ failure \in {"ValueError", "OSError"}

\* monitor_files has synchronised an empty bucket and calls observe()
InitObserve ==
    /\ localFiles = <<>>
    /\ localDirs = {}
    /\ bucket = <<>>
    /\ syncLog = NoSync
    /\ opc = "check"
    /\ stop = FALSE
    /\ blocked = 0
    /\ sleepLeft = 0
    /\ obsLog = NoObserve
    /\ RegistryIdle
    /\ OrderIdle /\ WriterIdle
    /\ HandlerIdle
    /\ OidcIdle
    /\ QueryIdle

\* `while not stop_signal.is_set()`
ObserveCheck ==
    /\ opc = "check"
    /\ opc' = IF stop THEN "returned" ELSE "subscribe"
    /\ blocked' = 0
    /\ UNCHANGED <<stop, sleepLeft, obsLog, localFiles, localDirs, bucket,
                   syncLog, registryVars, orderVars, writerVars, queryVars, handlerVars, oidcVars>>

\* listen_bucket_notification(...), which may raise
Subscribe(failure) ==
    /\ opc = "subscribe"
    /\ opc' = IF failure = "none" THEN "poll" ELSE on_failure(failure)
    /\ sleepLeft' = IF failure = "none" THEN 0 ELSE SleepTenths
    /\ obsLog' = IF failure = "none" THEN obsLog
                 ELSE [obsLog EXCEPT !.failed = TRUE]
    /\ UNCHANGED <<stop, blocked, localFiles, localDirs, bucket, syncLog,
                   registryVars, orderVars, writerVars, queryVars, handlerVars, oidcVars>>

\* no event within the timeout: the sentinel, `continue` unless stopped
PollTimeout ==
    /\ opc = "poll"
    /\ opc' = IF stop THEN "check" ELSE "poll"
    /\ blocked' = 0
    /\ UNCHANGED <<stop, sleepLeft, obsLog, localFiles, localDirs, bucket,
                   syncLog, registryVars, orderVars, writerVars, queryVars, handlerVars, oidcVars>>

\* an event with one record arrives and is handled, unless stopped
PollEvent(event_name, local_path, failure) ==
    LET T == SyncState(DATA, localFiles, localDirs, {}, {})
        done == handle_record(T, event_name, local_path, bucket, failure)
        fails == record_fails(T, event_name, local_path, bucket, failure)
        kind == IF failure = "none" THEN "S3Error" ELSE failure
    IN /\ opc = "poll"
       /\ blocked' = 0
       /\ IF stop
          THEN /\ opc' = "check"
               /\ UNCHANGED <<DATA, localFiles, localDirs, sleepLeft, obsLog>>
          ELSE /\ DATA' = done.R
               /\ localFiles' = done.fs
               /\ localDirs' = done.ds
               /\ opc' = IF fails THEN on_failure(kind) ELSE "poll"
               /\ sleepLeft' = IF fails THEN SleepTenths ELSE 0
               /\ obsLog' =
                    IF fails THEN [obsLog EXCEPT !.failed = TRUE]
                    ELSE [obsLog EXCEPT
                            !.handledAfterFailure = obsLog.failed,
                            !.event = event_name]
       /\ UNCHANGED <<stop, bucket, syncLog, last, nev, failedLast,
                      orderVars, writerVars, queryVars, handlerVars, oidcVars>>

\* the event stream ends, or breaks with an error
PollEnds(failure) ==
    /\ opc = "poll"
    /\ opc' = IF failure = "none" THEN "check" ELSE on_failure(failure)
    /\ sleepLeft' = IF failure = "none" THEN 0 ELSE SleepTenths
    /\ obsLog' = IF failure = "none" THEN obsLog
                 ELSE [obsLog EXCEPT !.failed = TRUE]
    /\ UNCHANGED <<stop, blocked, localFiles, localDirs, bucket, syncLog,
                   registryVars, orderVars, writerVars, queryVars, handlerVars, oidcVars>>

\* time.sleep(60) goes on for the length of one poll
SleepOn ==
    /\ opc = "sleep"
    /\ sleepLeft' = sleepLeft - PollTimeoutTenths
    /\ blocked' = blocked + PollTimeoutTenths
    /\ opc' = IF sleepLeft' = 0 THEN "check" ELSE "sleep"
    /\ UNCHANGED <<stop, obsLog, localFiles, localDirs, bucket, syncLog,
                   registryVars, orderVars, writerVars, queryVars, handlerVars, oidcVars>>

\* the application shuts down: stop_signal.set()
SetStop ==
    /\ ~stop
    /\ opc # "returned"
    /\ stop' = TRUE
    /\ UNCHANGED <<opc, blocked, sleepLeft, obsLog, localFiles, localDirs,
                   bucket, syncLog, registryVars, orderVars, writerVars, queryVars, handlerVars,
                   oidcVars>>

NextObserve ==
    \/ ObserveCheck
    \/ \E failure \in Failures \cup {"none"} : Subscribe(failure)
    \/ PollTimeout
    \/ \E event_name \in EventNames, local_path \in SyncPaths,
          failure \in Failures \cup {"none"} :
            PollEvent(event_name, local_path, failure)
    \/ \E failure \in Failures \cup {"none"} : PollEnds(failure)
    \/ SleepOn
    \/ SetStop
    \/ \E key \in SyncPaths : BucketPut(key, S3Object("a", Md5Of("a")))
    \/ \E key \in SyncPaths : BucketRemove(key)

SpecObserve == InitObserve /\ [][NextObserve]_vars

----------------------------------------------------------------------------
(* Beacon queries: VariantQueryParameters (beacon/model/variant.py), the   *)
(* allele-frequency lookup (beacon/service/allele_freq.py) and the         *)
(* individuals count (beacon/service/individuals.py)                       *)

\* Python None where a string is expected is "None", where a count or an
\* integer is expected NoCount
NoCount == -1

\* VariantQueryParameters with every field None
NoValues ==
    [assemblyId |-> "None", geneId |-> "None", mateName |-> "None",
     aminoacidChange |-> "None", genomicAlleleShortForm |-> "None",
     referenceName |-> "None", referenceBases |-> "None",
     alternateBases |-> "None", start |-> <<>>, variantType |-> "None",
     variantMinLength |-> NoCount, variantMaxLength |-> NoCount]

\* assemblyId, referenceName, start, referenceBases and alternateBases
Sufficient(alt) ==
    [NoValues EXCEPT !.assemblyId = "GRCh37", !.referenceName = "1",
                     !.referenceBases = "A", !.alternateBases = alt,
                     !.start = <<999>>]

\* the parameter objects of the requests: the variant of the data (A>G at
\* 999), a variant no file holds (A>C), the first with a geneId or a
\* variantMinLength added, a geneId alone, and an object without values
VariantParams ==
    {Sufficient("G"), Sufficient("C"),
     [Sufficient("G") EXCEPT !.geneId = "BRCA1"],
     [Sufficient("G") EXCEPT !.variantMinLength = 1],
     [NoValues EXCEPT !.geneId = "BRCA1"],
     NoValues}

\* requestParameters: <<>> is None, <<p>> the object p
RequestParameters == {<<>>} \cup {<<p>> : p \in VariantParams}

\* model_dump(exclude_none=True) is not empty
has_values(params) == params # NoValues

has_unsupported_values(params) ==
    \/ params.geneId # "None"
    \/ params.mateName # "None"
    \/ params.aminoacidChange # "None"
    \/ params.genomicAlleleShortForm # "None"
    \/ params.alternateBases # "None"
    \/ params.variantMinLength # NoCount
    \/ params.variantMaxLength # NoCount

has_sufficient_values(params) ==
    /\ params.assemblyId # "None"
    /\ params.assemblyId \in Assemblies
    /\ params.referenceName # "None"
    /\ params.referenceBases # "None"
    /\ params.alternateBases # "None"
    /\ params.start # <<>>

is_not_sufficient(params) ==
    ~has_unsupported_values(params) /\ has_sufficient_values(params)

\* the datasets of the data directory the queries run on, each with an
\* allele-freq-chr1.0.parquet, an individuals-chr1.0.parquet and an
\* individuals.parquet below GRCh37
QueryDatasets == {"d1", "d2", "d3"}

\* the registry after on_new_file for every file of the datasets, taken
\* dataset by dataset in the order `listing`: one GRCh37 entry in each
\* BeaconData, its list holding the datasets in that order
QueryRegistry(listing) ==
    LET file(d, n) == ParquetPath(d, "GRCh37", n)
        group == chr_group_of("1", 999)
        aggregated(d) ==
            [BeaconDataset(d) EXCEPT
                !.chr_group_files = MapPut(NoFiles, group,
                                           file(d, AlleleFreqChr10))]
        sensitive(d) ==
            [BeaconDataset(d) EXCEPT
                !.individuals_parquet = file(d, IndividualsParquet),
                !.chr_group_files = MapPut(NoFiles, group,
                                           file(d, IndividualsChr10))]
    IN [EmptyRegistry EXCEPT
           !.aggregated_beacon =
               <<[assembly |-> "GRCh37",
                  datasets |-> [i \in 1..Len(listing) |->
                                   aggregated(listing[i])]]>>,
           !.sensitive_beacon =
               <<[assembly |-> "GRCh37",
                  datasets |-> [i \in 1..Len(listing) |->
                                   sensitive(listing[i])]]>>]

\* the orders in which the datasets were registered
QueryListings == {<<"d1", "d2", "d3">>, <<"d3", "d1", "d2">>}

\* rows of the Parquet files.  INDIVIDUALS is a string such as "2,5-7,9"
AfRow(alt, population) ==
    [POS |-> 999, REF |-> "A", ALT |-> alt, VT |-> "SNP",
     POPULATION |-> population]
VariantRow(alt, individuals) ==
    [POS |-> 999, REF |-> "A", ALT |-> alt, VT |-> "SNP",
     INDIVIDUALS |-> individuals]
\* AGE, an ISO 8601 duration of whole years such as "P40Y"
Age(years) == <<"P">> \o str(years) \o <<"Y">>
Individual(index, sex, age) == [INDEX |-> index, SEX |-> sex, AGE |-> age]

Table(parquet_file) ==
    LET d == parquet_file.dir[1]
        n == parquet_file.name
    IN CASE n = AlleleFreqChr10 /\ d = "d1" ->
                <<AfRow("G", "FI"), AfRow("G", "EE")>>
         [] n = AlleleFreqChr10 /\ d = "d2" -> <<AfRow("T", "FI")>>
         [] n = AlleleFreqChr10 /\ d = "d3" -> <<AfRow("G", "FI")>>
         [] n = IndividualsChr10 /\ d = "d1" ->
                <<VariantRow("G", <<"2", ",", "5", "-", "7", ",", "9">>)>>
         [] n = IndividualsChr10 /\ d = "d2" ->
                <<VariantRow("G", <<"1">>)>>
         [] n = IndividualsChr10 /\ d = "d3" ->
                <<VariantRow("T", <<"1">>), VariantRow("G", <<"1", "-", "5">>)>>
         [] n = IndividualsParquet /\ d = "d1" ->
                <<Individual(2, "F", Some(Age(30))),
                  Individual(3, "M", Some(Age(30))),
                  Individual(4, "F", Some(Age(40))),
                  Individual(5, "M", Some(Age(50))),
                  Individual(6, "F", None),
                  Individual(7, "M", Some(<<"4", "0">>)),
                  Individual(9, "F", Some(<<"P", "Y">>))>>
         [] n = IndividualsParquet /\ d = "d2" ->
                <<Individual(1, "M", Some(Age(40))),
                  Individual(2, "M", Some(Age(40)))>>
         [] n = IndividualsParquet /\ d = "d3" ->
                <<Individual(1, "F", Some(Age(9))),
                  Individual(2, "F", Some(Age(10))),
                  Individual(3, "F", Some(Age(39))),
                  Individual(4, "F", Some(Age(41))),
                  Individual(5, "F", None)>>
         [] OTHER -> <<>>

\* parquet_filter_for_variants (beacon/service/_parquet.py)
parquet_filter_for_variants(params, row) ==
    /\ row.POS = params.start[1]
    /\ row.REF = params.referenceBases
    /\ row.ALT = params.alternateBases
    /\ row.VT = (IF params.variantType = "None" THEN "SNP"
                 ELSE params.variantType)

\* the keys of a dict in the order of their first insertion
RECURSIVE dict_keys(_)
dict_keys(visits) ==
    IF visits = <<>> THEN <<>>
    ELSE LET init == dict_keys(SubSeq(visits, 1, Len(visits) - 1))
             k == visits[Len(visits)]
         IN IF InSeq(init, k) THEN init ELSE Append(init, k)

\* get_dataset_files(...).items(): the dataset ids in dict order
dataset_files_keys(assemblies, assembly, chrom, pos) ==
    LET ap == AssemblyPos(assemblies, assembly)
        chr_group == chr_group_of(chrom, pos)
        hit == SelectSeq(assemblies[ap].datasets,
                         LAMBDA d : chr_group \in DOMAIN d.chr_group_files)
    IN IF ap = 0 THEN <<>>
       ELSE dict_keys([i \in 1..Len(hit) |-> hit[i].dataset_id])

RECURSIVE all_datasets(_)
all_datasets(assemblies) ==
    IF assemblies = <<>> THEN <<>>
    ELSE Head(assemblies).datasets \o all_datasets(Tail(assemblies))

\* get_dataset_individuals(...).items(): the dataset ids in dict order
dataset_individuals_keys(assemblies, assembly, chrom, pos) ==
    LET keyed == assembly # NoAssembly /\ chrom # NoChrom /\ pos # NoPos
        chr_group == chr_group_of(chrom, pos)
        passes(d) == /\ d.individuals_parquet # NoPath
                     /\ keyed => chr_group \in DOMAIN d.chr_group_files
        hit == SelectSeq(all_datasets(assemblies), passes)
    IN IF assembly # NoAssembly /\ AssemblyPos(assemblies, assembly) = 0
       THEN <<>>
       ELSE dict_keys([i \in 1..Len(hit) |-> hit[i].dataset_id])

\* Pagination: limit and skip, NoCount for None
page_limit(pagination) ==
    IF pagination.limit # NoCount THEN pagination.limit ELSE 10
page_skip(pagination) ==
    IF pagination.skip # NoCount THEN pagination.skip ELSE 0

\* what a service function gives the endpoint: the exception it raised
\* ("None" when it returned) and the result sets, one per dataset
Returned(resultSets) == [raised |-> "None", resultSets |-> resultSets]
Raised(exception) == [raised |-> exception, resultSets |-> <<>>]
ResultSet(id, resultsCount) == [id |-> id, resultsCount |-> resultsCount]

\* the loop of find_datasets_allele_frequencies; find_af gives False for a
\* file without a matching row, True when skip_details, else the result
RECURSIVE af_loop(_, _, _, _, _, _, _)
af_loop(items, dataset_files, params, skip, limit, results, dataset_match_count) ==
    IF items = <<>> THEN results
    ELSE LET dataset_id == Head(items)
             skip_details == dataset_match_count < skip
             table == SelectSeq(Table(dataset_files[dataset_id]),
                         LAMBDA row : parquet_filter_for_variants(params, row))
             added == Append(results, ResultSet(dataset_id, Len(table)))
         IN IF table = <<>>
            THEN af_loop(Tail(items), dataset_files, params, skip, limit,
                         results, dataset_match_count)
            ELSE IF skip_details
            THEN af_loop(Tail(items), dataset_files, params, skip, limit,
                         results, dataset_match_count + 1)
            ELSE IF Len(added) >= limit THEN added
            ELSE af_loop(Tail(items), dataset_files, params, skip, limit,
                         added, dataset_match_count + 1)

\* find_datasets_allele_frequencies: the datasets of the result, each with
\* its number of population rows.  BeaconAssembly(None) raises ValueError.
allele_frequencies(R, requestParameters, pagination) ==
    LET params == requestParameters[1]
        assemblies == R.aggregated_beacon
        items == dataset_files_keys(assemblies, params.assemblyId,
                                    params.referenceName, params.start[1])
        dataset_files == get_dataset_files(assemblies, params.assemblyId,
                             params.referenceName, params.start[1])
    IN IF requestParameters = <<>> THEN Returned(<<>>)
       ELSE IF is_not_sufficient(params) THEN Returned(<<>>)
       ELSE IF params.assemblyId \notin Assemblies THEN Raised("ValueError")
       ELSE Returned(af_loop(items, dataset_files, params,
                             page_skip(pagination), page_limit(pagination),
                             <<>>, 0))

\* QueryFilter, reduced to id, operator, value and scope
SexFilter(value, scope) ==
    [id |-> "sex", operator |-> "None", value |-> value, scope |-> scope]
AgeFilter(operator, value) ==
    [id |-> "diseases.ageOfOnset.iso8601duration", operator |-> operator,
     value |-> value, scope |-> "individual"]
FilterLists ==
    {<<>>,
     <<SexFilter("NCIT:C16576", "individual")>>,
     <<SexFilter("NCIT:C20197", "individual")>>,
     <<SexFilter("NCIT:C16576", "biosample")>>,
     <<[id |-> "ethnicity", operator |-> "None", value |-> "NCIT:C16576",
        scope |-> "individual"]>>}

\* IndividualFilter._convert_from_ontology_key
convert_from_ontology_key(provided_value) ==
    IF provided_value = "None" THEN "None"
    ELSE IF provided_value = "NCIT:C20197" THEN "M"
    ELSE IF provided_value = "NCIT:C16576" THEN "F"
    ELSE "UNKNOWN"

\* isoduration's parse_duration, of durations of whole years: the years,
\* or a ValueError
NoAge == -1
parse_duration(duration) ==
    IF /\ Len(duration) >= 3
       /\ duration[1] = "P"
       /\ duration[Len(duration)] = "Y"
       /\ \A i \in 2..(Len(duration) - 1) : duration[i] \in Range(DigitChars)
    THEN [raised |-> "None",
          years |-> int(SubSeq(duration, 2, Len(duration) - 1))]
    ELSE [raised |-> "ValueError", years |-> NoAge]

\* IndividualFilter(sex, age, operator), valid; resolve_filters gives None
\* (valid = FALSE) for filters it does not take
IndividualFilter(sex, age, operator) ==
    [valid |-> TRUE, sex |-> convert_from_ontology_key(sex),
     age |-> age, operator |-> operator]
NoFilter ==
    [valid |-> FALSE, sex |-> "None", age |-> NoAge, operator |-> "None"]
supported_filters == {"sex", "diseases.ageOfOnset.iso8601duration"}
RECURSIVE resolve_filters_from(_, _, _, _)
resolve_filters_from(filters, sex, age_value, age_operator) ==
    IF filters = <<>> THEN IndividualFilter(sex, age_value, age_operator)
    ELSE LET item == Head(filters)
         IN IF item.id \notin supported_filters THEN NoFilter
            ELSE IF item.scope # "individual" THEN NoFilter
            ELSE IF item.id = "sex"
            THEN resolve_filters_from(Tail(filters), item.value,
                                      age_value, age_operator)
            ELSE IF parse_duration(item.value).raised # "None" THEN NoFilter
            ELSE resolve_filters_from(Tail(filters), sex,
                                      parse_duration(item.value).years,
                                      item.operator)
resolve_filters(filters) == resolve_filters_from(filters, "None", NoAge, "None")

\* IndividualFilter.has_age_filter: _age_matcher gave a comparison
has_age_filter(filters) == filters.age # NoAge /\ filters.operator # "None"

\* IndividualFilter.matches_all
matches_all(filters) == filters.sex = "None" /\ ~has_age_filter(filters)

\* the comparison _age_matcher builds: the filter's age is its left
\* operand, the age of the row its right one
age_compare(age, operator, x) ==
    CASE operator = "<" -> age < x
      [] operator = ">" -> age > x
      [] operator = "<=" -> age <= x
      [] operator = ">=" -> age >= x
      [] operator = "=" -> age = x
      [] operator = "!" -> age # x

\* IndividualFilter.matches_age, of the AGE of a row
matches_age(filters, file_age) ==
    IF ~has_age_filter(filters) THEN TRUE
    ELSE IF file_age = None THEN FALSE
    ELSE IF Len(ValueOf(file_age)) = 0 \/ ValueOf(file_age)[1] # "P"
    THEN FALSE
    ELSE IF parse_duration(ValueOf(file_age)).raised # "None" THEN FALSE
    ELSE age_compare(filters.age, filters.operator,
                     parse_duration(ValueOf(file_age)).years)

\* parse_range with range(int(start), int(end)) for a number range
parse_range_exclusive(ranges_str) ==
    LET items == split(ranges_str, ",")
    IN UNION {IF find(items[i], <<"-">>) # -1
              THEN LET parts == split(items[i], "-")
                   IN int(parts[1])..(int(parts[2]) - 1)
              ELSE {int(items[i])} : i \in 1..Len(items)}

\* parse_range: the set of the numbers and number ranges of INDIVIDUALS
\* (`start, end = item.split("-")` takes an item with exactly one "-")
parse_range(ranges_str) ==
    LET items == split(ranges_str, ",")
    IN UNION {IF find(items[i], <<"-">>) # -1
              THEN LET parts == split(items[i], "-")
                   IN int(parts[1])..int(parts[2])
              ELSE {int(items[i])} : i \in 1..Len(items)}

\* filter_individuals: the count, NoCount for None
filter_individuals(parquet_file, individual_indices, filters) ==
    LET table == SelectSeq(Table(parquet_file),
                     LAMBDA row :
                        /\ individual_indices # {} =>
                              row.INDEX \in individual_indices
                        /\ filters.sex # "None" => row.SEX = filters.sex)
        match_count ==
            IF ~has_age_filter(filters) THEN Len(table)
            ELSE Len(SelectSeq(table,
                        LAMBDA row : matches_age(filters, row.AGE)))
    IN IF matches_all(filters) /\ Cardinality(individual_indices) > 0
       THEN Cardinality(individual_indices)
       ELSE IF Len(table) = 0 THEN NoCount
       ELSE IF match_count > 0 THEN match_count
       ELSE NoCount

filter_individuals_by_variant(params, filters, variants_parquet_file, individuals_parquet_file) ==
    LET table == SelectSeq(Table(variants_parquet_file),
                     LAMBDA row : parquet_filter_for_variants(params, row))
    IN IF Len(table) = 0 THEN NoCount
       ELSE filter_individuals(individuals_parquet_file,
                               parse_range(table[1].INDIVIDUALS), filters)

\* BeaconSetup.censor_count
censor_count(count, hide_lower_counts) ==
    IF count = NoCount \/ count < hide_lower_counts THEN NoCount ELSE count

\* the loop of get_results_from_individuals_parquet.  filter_individuals
\* gives None, never 0, for a file without a match, so `count == 0` skips
\* nothing, and ResultSet(resultsCount=None) fails pydantic's validation.
RECURSIVE individuals_parquet_loop(_, _, _, _, _, _, _)
individuals_parquet_loop(items, dataset_files, filters, skip, limit, results, dataset_match_count) ==
    IF items = <<>> THEN Returned(results)
    ELSE LET dataset_id == Head(items)
             count == filter_individuals(dataset_files[dataset_id][1], {},
                                         filters)
             added == Append(results, ResultSet(dataset_id, count))
         IN IF count = 0
            THEN individuals_parquet_loop(Tail(items), dataset_files, filters,
                     skip, limit, results, dataset_match_count)
            ELSE IF dataset_match_count + 1 <= skip
            THEN individuals_parquet_loop(Tail(items), dataset_files, filters,
                     skip, limit, results, dataset_match_count + 1)
            ELSE IF count = NoCount THEN Raised("ValidationError")
            ELSE IF Len(added) >= limit THEN Returned(added)
            ELSE individuals_parquet_loop(Tail(items), dataset_files, filters,
                     skip, limit, added, dataset_match_count + 1)

\* get_results_from_individuals_parquet: its ResultSets
results_from_individuals_parquet(R, filters, skip, limit) ==
    individuals_parquet_loop(
        dataset_individuals_keys(R.sensitive_beacon, NoAssembly, NoChrom,
                                 NoPos),
        get_dataset_individuals(R.sensitive_beacon, NoAssembly, NoChrom,
                                NoPos),
        filters, skip, limit, <<>>, 0)

\* the loop of get_results_from_variants
RECURSIVE variants_loop(_, _, _, _, _, _, _, _, _)
variants_loop(items, dataset_files, params, filters, skip, limit, hide_lower_counts, results, dataset_match_count) ==
    IF items = <<>> THEN Returned(results)
    ELSE LET dataset_id == Head(items)
             parquet_files == dataset_files[dataset_id]
             individuals_count ==
                 censor_count(
                     filter_individuals_by_variant(
                         params, filters, parquet_files[2], parquet_files[1]),
                     hide_lower_counts)
             added == Append(results, ResultSet(dataset_id, individuals_count))
         IN IF individuals_count = NoCount
            THEN variants_loop(Tail(items), dataset_files, params, filters,
                     skip, limit, hide_lower_counts, results,
                     dataset_match_count)
            ELSE IF dataset_match_count + 1 <= skip
            THEN variants_loop(Tail(items), dataset_files, params, filters,
                     skip, limit, hide_lower_counts, results,
                     dataset_match_count + 1)
            ELSE IF Len(added) >= limit THEN Returned(added)
            ELSE variants_loop(Tail(items), dataset_files, params, filters,
                     skip, limit, hide_lower_counts, added,
                     dataset_match_count + 1)

\* get_results_from_variants: its ResultSets
results_from_variants(R, params, filters, skip, limit, hide_lower_counts) ==
    variants_loop(
        dataset_individuals_keys(R.sensitive_beacon, params.assemblyId,
                                 params.referenceName, params.start[1]),
        get_dataset_individuals(R.sensitive_beacon, params.assemblyId,
                                params.referenceName, params.start[1]),
        params, filters, skip, limit, hide_lower_counts, <<>>, 0)

\* resolve_variant_filter: <<>> for None
resolve_variant_filter(requestParameters) ==
    IF requestParameters # <<>> /\ has_values(requestParameters[1])
    THEN requestParameters
    ELSE <<>>

\* includeResultsetResponses
IncludeResponses == {"ALL", "HIT", "MISS", "NONE"}

\* get_individuals_count(request, setup)
get_individuals_count(R, query, hide_lower_counts) ==
    LET found == resolve_variant_filter(query.requestParameters)
        params == IF found # <<>> /\ ~has_sufficient_values(found[1])
                  THEN <<>> ELSE found
        filters == resolve_filters(query.filters)
        limit == page_limit(query.pagination)
        skip == page_skip(query.pagination)
    IN IF query.testMode THEN Returned(<<>>)
       ELSE IF query.includeResultsetResponses \notin {"None", "HIT"}
       THEN Returned(<<>>)
       ELSE IF params # <<>> /\ has_unsupported_values(params[1])
       THEN Returned(<<>>)
       ELSE IF ~filters.valid THEN Returned(<<>>)
       ELSE IF params = <<>>
       THEN results_from_individuals_parquet(R, filters, skip, limit)
       ELSE results_from_variants(R, params[1], filters, skip, limit,
                                  hide_lower_counts)

\* BeaconQuery
Query(requestParameters, filters, pagination, testMode, include) ==
    [requestParameters |-> requestParameters, filters |-> filters,
     pagination |-> pagination, testMode |-> testMode,
     includeResultsetResponses |-> include]

\* the requests: skip and limit up to MaxPage, or left out
MaxPage == 2
Paginations ==
    {[limit |-> l, skip |-> s] : l \in {NoCount} \cup 0..MaxPage,
                                 s \in 0..MaxPage}

\* context.service.configuration.hideLowerCounts
HideLowerCounts == {1, 5}

\* a node whose data directory holds the three datasets
InitQuery ==
    /\ \E listing \in QueryListings : DATA = QueryRegistry(listing)
    /\ last = NoOp
    /\ nev = 0
    /\ failedLast = {}
    /\ OrderIdle /\ WriterIdle
    /\ HandlerIdle
    /\ OidcIdle
    /\ StoreIdle
    /\ req = NoRequest
    /\ resp = NoResponse
    /\ \E k \in HideLowerCounts :
          setup = [NoSetup EXCEPT !.hide_lower_counts = k]

\* POST /g_variants: find_datasets_allele_frequencies(request).  Every read
\* succeeds and the registry holds no problematic file, so the
\* forget_issues_with of each read changes nothing; a query leaves the node
\* as it found it, and a behaviour shows the answer to one request.
SearchVariants(requestParameters, pagination) ==
    /\ req = NoRequest
    /\ req' = [endpoint |-> "g_variants",
               query |-> Query(requestParameters, <<>>, pagination, FALSE,
                               "None")]
    /\ resp' = allele_frequencies(DATA, requestParameters, pagination)
    /\ UNCHANGED <<setup, registryVars, orderVars, writerVars, handlerVars, oidcVars,
                   storeVars>>

\* POST /individuals: get_individuals_count(request, setup)
SearchIndividuals(query) ==
    /\ req = NoRequest
    /\ req' = [endpoint |-> "individuals", query |-> query]
    /\ resp' = get_individuals_count(DATA, query, setup.hide_lower_counts)
    /\ UNCHANGED <<setup, registryVars, orderVars, writerVars, handlerVars, oidcVars,
                   storeVars>>

NextQuery ==
    \/ \E p \in RequestParameters, g \in Paginations : SearchVariants(p, g)
    \/ \E p \in RequestParameters, f \in FilterLists, g \in Paginations,
          t \in BOOLEAN, i \in {"None", "HIT", "ALL"} :
          SearchIndividuals(Query(p, f, g, t, i))

SpecQuery == InitQuery /\ [][NextQuery]_vars

----------------------------------------------------------------------------
(* The `filters` URL parameter: parse_filters (beacon/api/request.py)      *)

\* FilterOperator, in the order of its definition
FilterOperator ==
    << <<"=">>, <<"!">>, <<"<">>, <<"<", "=">>, <<">">>, <<">", "=">> >>

QueryFilter(id, operator, value) ==
    [id |-> id, operator |-> operator, value |-> value]

\* the body of the loop over values: the first operator of FilterOperator
\* found past index 1 cuts the item
parse_filter_item(item) ==
    LET found == {k \in 1..Len(FilterOperator) :
                     find(item, FilterOperator[k]) > 1}
    IN IF found = {} THEN QueryFilter(item, None, None)
       ELSE LET k == CHOOSE k \in found : \A j \in found : k <= j
                operator == FilterOperator[k]
                operator_pos == find(item, operator)
                field_id == replace(rstrip(SubSeq(item, 1, operator_pos),
                                           {":"}), "_", ":")
                value == lstrip(SubSeq(item, operator_pos + 2, Len(item)),
                                Whitespace)
            IN QueryFilter(field_id, Some(operator), Some(value))

\* parse_filters, of request.query_params.get("filters")
parse_filters(param) ==
    IF param = None \/ strip(ValueOf(param)) = <<>> THEN None
    ELSE LET items == split(ValueOf(param), ",")
             values == SelectSeq([i \in 1..Len(items) |-> strip(items[i])],
                                 LAMBDA item : item # <<>>)
         IN Some([i \in 1..Len(values) |-> parse_filter_item(values[i])])

\* the characters and the lengths of the parameter values
FilterChars == {"a", "_", ":", "=", "!", "<", ">", ",", " "}
MaxFilterLen == 5
FilterParams ==
    {None} \cup
    {Some(s) : s \in UNION {[1..n -> FilterChars] : n \in 0..MaxFilterLen}}

InitFilters ==
    /\ RegistryIdle
    /\ OrderIdle /\ WriterIdle
    /\ HandlerIdle
    /\ OidcIdle
    /\ StoreIdle
    /\ QueryIdle

\* a GET request with the given `filters` parameter
ParseFilters(param) ==
    /\ req' = [endpoint |-> "filters", filters |-> param]
    /\ resp' = [status |-> 0, filters |-> parse_filters(param)]
    /\ UNCHANGED <<setup, registryVars, orderVars, writerVars, handlerVars, oidcVars,
                   storeVars>>

\* a behaviour shows the answer to one request
NextFilters ==
    req = NoRequest /\ \E param \in FilterParams : ParseFilters(param)

SpecFilters == InitFilters /\ [][NextFilters]_vars

----------------------------------------------------------------------------
(* The INDIVIDUALS column of the Parquet writer:                            *)
(* VcfIndividualsReader._range_str (parquet-writer) and parse_range         *)

\* the loop of _range_str over indices[1:]
RECURSIVE range_str_loop(_, _, _, _, _)
range_str_loop(indices, previous, last_index, range_length, text) ==
    IF indices = <<>> THEN text
    ELSE LET index == Head(indices)
             rest == Tail(indices)
         IN IF index - previous = 1
            THEN IF index # last_index
                 THEN range_str_loop(rest, index, last_index,
                                     range_length + 1, text)
                 ELSE IF range_length > 0
                 THEN range_str_loop(rest, index, last_index, range_length,
                                     text \o <<"-">> \o str(index))
                 ELSE range_str_loop(rest, index, last_index, range_length,
                                     text \o <<",">> \o str(index))
            ELSE IF range_length > 1
                 THEN range_str_loop(rest, index, last_index, 0,
                          text \o <<"-">> \o str(previous)
                               \o <<",">> \o str(index))
                 ELSE IF range_length = 1
                 THEN range_str_loop(rest, index, last_index, 0,
                          text \o <<",">> \o str(previous)
                               \o <<",">> \o str(index))
                 ELSE range_str_loop(rest, index, last_index, 0,
                          text \o <<",">> \o str(index))

\* _range_str: the exception it raised ("None" when it returned) and the
\* string
range_str(indices) ==
    IF Len(indices) = 0
    THEN [raised |-> "AssertionError", text |-> <<>>]
    ELSE [raised |-> "None",
          text |-> range_str_loop(Tail(indices), indices[1],
                                  indices[Len(indices)], 0, str(indices[1]))]

\* np.flatnonzero(...).tolist(): the indices in ascending order
RECURSIVE Ascending(_)
Ascending(S) ==
    IF S = {} THEN <<>>
    ELSE LET least == CHOOSE x \in S : \A y \in S : x <= y
         IN <<least>> \o Ascending(S \ {least})

\* the sample indices of a VCF file
MaxIndex == 11
SampleIndices == 0..MaxIndex

InitRange ==
    /\ RegistryIdle
    /\ OrderIdle /\ WriterIdle
    /\ HandlerIdle
    /\ OidcIdle
    /\ StoreIdle
    /\ QueryIdle

\* the writer stores _range_str of the samples S and the node reads the
\* stored string with parse_range
WriteAndParse(S) ==
    LET written == range_str(Ascending(S))
    IN /\ req' = [endpoint |-> "INDIVIDUALS", samples |-> S]
       /\ resp' = IF written.raised # "None"
                  THEN [status |-> 0, raised |-> written.raised,
                        text |-> <<>>, indices |-> {}]
                  ELSE [status |-> 0, raised |-> "None",
                        text |-> written.text,
                        indices |-> parse_range(written.text)]
       /\ UNCHANGED <<setup, registryVars, orderVars, writerVars, handlerVars, oidcVars,
                      storeVars>>

\* a behaviour shows one set of samples
NextRange ==
    req = NoRequest /\ \E S \in SUBSET SampleIndices : WriteAndParse(S)

SpecRange == InitRange /\ [][NextRange]_vars

----------------------------------------------------------------------------
(* Query responses: BeaconSetup.response and collection_response           *)
(* (beacon/setup.py)                                                       *)

\* Granularity, and "None" for a request or a configuration without one
Granularity == {"boolean", "count", "record"}
Granularities == Granularity \cup {"None"}

\* BeaconSetup._granularity
granularity(conf, request) ==
    IF request.requestedGranularity # "None"
    THEN request.requestedGranularity
    ELSE IF conf.default_granularity # "None"
    THEN conf.default_granularity
    ELSE "boolean"

\* BeaconSetup.count_value, NoCount for None
count_value(conf, request, count) ==
    IF granularity(conf, request) # "boolean" THEN count ELSE NoCount

\* records_value that shows the records at every granularity
records_value_always(conf, request, records) == Some(records)

\* BeaconSetup.records_value
records_value(conf, request, records) ==
    IF granularity(conf, request) = "record" THEN Some(records) ELSE None

\* BeaconSetup.is_show_records
is_show_records(conf, request) == granularity(conf, request) = "record"

\* ResultSets and CollectionsList
ResultSets(resultSets) == [type |-> "ResultSets", items |-> resultSets]
CollectionsList(collections) ==
    [type |-> "CollectionsList", items |-> collections]

BeaconResponse(returnedGranularity, exists, numTotalResults, response) ==
    [status |-> 200,
     returnedGranularity |-> returnedGranularity,
     exists |-> exists,
     numTotalResults |-> numTotalResults,
     response |-> response]

\* BeaconSetup.response, of a ResultSets or a CollectionsList
response(conf, request, results) ==
    LET count == Len(results.items)
    IN BeaconResponse(granularity(conf, request), count > 0,
                      count_value(conf, request, count),
                      records_value(conf, request, results))

\* BeaconSetup.collection_response, of a list
collection_response(conf, request, results) ==
    LET count == Len(results)
    IN BeaconResponse(granularity(conf, request), count > 0,
                      count_value(conf, request, count),
                      IF is_show_records(conf, request)
                      THEN Some(CollectionsList(results))
                      ELSE None)

\* the results a handler hands over: up to MaxResults datasets
MaxResults == 2
ResultLists == UNION {[1..n -> QueryDatasets] : n \in 0..MaxResults}

InitResponse ==
    /\ RegistryIdle
    /\ OrderIdle /\ WriterIdle
    /\ HandlerIdle
    /\ OidcIdle
    /\ StoreIdle
    /\ req = NoRequest
    /\ resp = NoResponse
    /\ \E default_granularity \in Granularities :
          setup = [NoSetup EXCEPT
                      !.default_granularity = default_granularity]

\* a handler answers with setup.response(request, results, entity_type)
Response(requestedGranularity, results) ==
    LET request == [endpoint |-> "response",
                    requestedGranularity |-> requestedGranularity,
                    results |-> results]
    IN /\ req' = request
       /\ resp' = response(setup, request, results)
       /\ UNCHANGED <<setup, registryVars, orderVars, writerVars, handlerVars, oidcVars,
                      storeVars>>

\* a handler answers with setup.collection_response(request, results,
\* entity_type)
CollectionResponse(requestedGranularity, results) ==
    LET request == [endpoint |-> "collection_response",
                    requestedGranularity |-> requestedGranularity,
                    results |-> results]
    IN /\ req' = request
       /\ resp' = collection_response(setup, request, results)
       /\ UNCHANGED <<setup, registryVars, orderVars, writerVars, handlerVars, oidcVars,
                      storeVars>>

NextResponse ==
    \E requestedGranularity \in Granularities, results \in ResultLists :
        \/ Response(requestedGranularity, ResultSets(results))
        \/ Response(requestedGranularity, CollectionsList(results))
        \/ CollectionResponse(requestedGranularity, results)

SpecResponse == InitResponse /\ [][NextResponse]_vars

----------------------------------------------------------------------------
(* Renamed directories: RegistryUpdater.on_moved_dir (data/fs.py)          *)
(* A directory is the sequence of its components below DATA_DIR.           *)

\* DataRegistry.forget_issues_in_dir: the files whose path starts with the
\* directory's
forget_issues_in_dir(R, dir_path) ==
    [R EXCEPT !.problematic_files =
        {f \in @ : ~(/\ Len(f.dir) >= Len(dir_path)
                     /\ SubSeq(f.dir, 1, Len(dir_path)) = dir_path)}]

\* _include_assembly_dir, with assembly_dir.glob("*.parquet") giving the
\* basenames globbed, in this order
RECURSIVE include_assembly_dir(_, _, _, _)
include_assembly_dir(R, dataset_id, assembly_dir, globbed) ==
    IF globbed = <<>> THEN R
    ELSE include_assembly_dir(
             add_parquet(R, dataset_id, assembly_dir[Len(assembly_dir)],
                         [dir |-> assembly_dir, name |-> Head(globbed)]),
             dataset_id, assembly_dir, Tail(globbed))

\* what on_moved_dir finds below dest_path: metadata.yaml (exists, and how
\* it parses) and, per assembly directory, the globbed basenames (<<>> for
\* a directory that is empty or not there)
DirContent(exists, parse, globbed) ==
    [exists |-> exists, parse |-> parse, globbed |-> globbed]

\* on_moved_dir.  BeaconAssembly members are non-empty strings, so the
\* assembly passed as also_beacon_data counts as True.
on_moved_dir(R, src_path, dest_path, content) ==
    LET R1 == IF Len(src_path) = 1
              THEN remove_dataset(R, src_path[1], TRUE)
              ELSE IF src_path[Len(src_path)] \in Assemblies
              THEN remove_dataset(R, src_path[Len(src_path) - 1], TRUE)
              ELSE R
        R2 == forget_issues_in_dir(R1, src_path)
        R3 == IF content.exists
              THEN on_new_metadata(R2, [dir |-> dest_path,
                                        name |-> MetadataYaml],
                                   content.parse)
              ELSE R2
        R4 == include_assembly_dir(R3, dest_path[1],
                                   dest_path \o <<"GRCh37">>,
                                   content.globbed["GRCh37"])
        R5 == include_assembly_dir(R4, dest_path[1],
                                   dest_path \o <<"GRCh38">>,
                                   content.globbed["GRCh38"])
    IN IF Len(dest_path) = 1 THEN R5
       ELSE IF dest_path[Len(dest_path)] \in Assemblies
       THEN include_assembly_dir(R2, dest_path[Len(dest_path) - 1],
                                 dest_path,
                                 content.globbed[dest_path[Len(dest_path)]])
       ELSE R2

\* renames in one behaviour
MaxMoves == 2

\* the directories a rename goes from and to, and what a renamed directory
\* may hold
MovedNames == {AlleleFreqChr10, IndividualsParquet}
DatasetDirs == {<<d>> : d \in DatasetIds}
AssemblyDirs == {<<d, a>> : d \in DatasetIds, a \in Assemblies}
OtherDirs == {<<"d1", "sub">>}
Dirs == DatasetDirs \cup AssemblyDirs \cup OtherDirs
Globs == UNION {Orders(S) : S \in SUBSET MovedNames}
DirContents(dest_path) ==
    IF Len(dest_path) = 1
    THEN {DirContent(FALSE, NoParse, globbed) :
             globbed \in [Assemblies -> Globs]}
         \cup {DirContent(TRUE, parse, [a \in Assemblies |-> <<>>]) :
                  parse \in Parses}
    ELSE {DirContent(FALSE, NoParse, [a \in Assemblies |-> globbed]) :
             globbed \in Globs}

\* FileRegistryUpdater.on_moved of a directory -> on_moved_dir.  last.path
\* is the source, last.flag whether the destination lies where on_moved_dir
\* scans it.
OnMovedDir(src_path, dest_path, content) ==
    LET metadata_file == [dir |-> dest_path, name |-> MetadataYaml]
        under_src == {f \in failedLast :
                         /\ Len(f.dir) >= Len(src_path)
                         /\ SubSeq(f.dir, 1, Len(src_path)) = src_path}
    IN /\ nev < MaxMoves
       /\ src_path # dest_path
       /\ DATA' = on_moved_dir(DATA, src_path, dest_path, content)
       /\ last' = Op("on_moved_dir", NoDataset,
                     [dir |-> src_path, name |-> <<>>],
                     \/ Len(dest_path) = 1
                     \/ dest_path[Len(dest_path)] \in Assemblies)
       /\ nev' = nev + 1
       /\ failedLast' =
            IF Len(dest_path) = 1 /\ content.exists
            THEN IF content.parse.ok
                 THEN failedLast \ under_src
                 ELSE (failedLast \ under_src) \cup {metadata_file}
            ELSE failedLast \ under_src
       /\ UNCHANGED <<orderVars, writerVars, queryVars, handlerVars, oidcVars, storeVars>>

\* the files whose events come after a rename
MovePaths ==
    {MetadataPath("d1")}
    \cup {ParquetPath("d1", a, n) : a \in Assemblies, n \in MovedNames}
    \cup {ParquetPath("d2", "GRCh37", AlleleFreqChr10)}

\* the registry of a data directory that holds d1, with metadata and files
\* of both assemblies, and d2, with one file and no metadata
RECURSIVE AddParquets(_, _)
AddParquets(R, files) ==
    IF files = <<>> THEN R
    ELSE AddParquets(on_new_parquet(R, Head(files)), Tail(files))

MovedRegistry ==
    AddParquets(add_dataset(EmptyRegistry, "d1", [catalog_id |-> "c1"]),
                <<ParquetPath("d1", "GRCh37", AlleleFreqChr10),
                  ParquetPath("d1", "GRCh37", IndividualsParquet),
                  ParquetPath("d1", "GRCh38", AlleleFreqChr10),
                  ParquetPath("d1", "GRCh38", IndividualsParquet),
                  ParquetPath("d2", "GRCh37", AlleleFreqChr10)>>)

InitMove ==
    /\ DATA \in {EmptyRegistry, MovedRegistry}
    /\ last = NoOp
    /\ nev = 0
    /\ failedLast = {}
    /\ OrderIdle /\ WriterIdle
    /\ HandlerIdle
    /\ OidcIdle
    /\ StoreIdle
    /\ QueryIdle

NextMove ==
    \/ \E p \in MovePaths : \E parse \in ParsesOf(p) : OnNewFile(p, parse)
    \/ \E p \in MovePaths : OnRemovedFile(p)
    \/ \E src_path \in Dirs, dest_path \in Dirs :
       \E content \in DirContents(dest_path) :
           OnMovedDir(src_path, dest_path, content)

SpecMove == InitMove /\ [][NextMove]_vars

----------------------------------------------------------------------------
(* The age filter of /individuals: IndividualFilter and filter_individuals *)
(* (beacon/service/individuals.py)                                         *)

\* the operators and the durations of the age filters, in years
AgeOperators == {"<", "<=", ">", ">=", "=", "!"}
FilterAges == {10, 40}
AgeFilterLists ==
    {<<AgeFilter(operator, Age(years))>> :
        operator \in AgeOperators, years \in FilterAges}
    \cup {<<SexFilter(sex, "individual"), AgeFilter(operator, Age(years))>> :
             sex \in {"NCIT:C16576", "NCIT:C20197"},
             operator \in AgeOperators, years \in FilterAges}

\* INDEX values picked by a variant row; {} when there is no variant filter
IndexSets == {{}, {2, 3, 4, 5}, {1, 2}}

InitAge ==
    /\ \E listing \in QueryListings : DATA = QueryRegistry(listing)
    /\ last = NoOp
    /\ nev = 0
    /\ failedLast = {}
    /\ OrderIdle /\ WriterIdle
    /\ HandlerIdle
    /\ OidcIdle
    /\ StoreIdle
    /\ QueryIdle

\* filter_individuals(parquet_file, individual_indices, filters) with the
\* IndividualFilter that resolve_filters gives for the request's filters
FilterIndividuals(dataset_id, individual_indices, filters) ==
    LET found == get_dataset_individuals(DATA.sensitive_beacon,
                                         NoAssembly, NoChrom, NoPos)
    IN /\ dataset_id \in DOMAIN found
       /\ req' = [endpoint |-> "filter_individuals",
                  parquet_file |-> found[dataset_id][1],
                  individual_indices |-> individual_indices,
                  filters |-> resolve_filters(filters)]
       /\ resp' = [status |-> 0,
                   count |-> filter_individuals(found[dataset_id][1],
                                                individual_indices,
                                                resolve_filters(filters))]
       /\ UNCHANGED <<setup, registryVars, orderVars, writerVars, handlerVars, oidcVars,
                      storeVars>>

\* a behaviour shows one call
NextAge ==
    req = NoRequest /\
    \E dataset_id \in QueryDatasets, individual_indices \in IndexSets,
       filters \in AgeFilterLists :
        FilterIndividuals(dataset_id, individual_indices, filters)

SpecAge == InitAge /\ [][NextAge]_vars

----------------------------------------------------------------------------
(* LRUCache called from several threads *)

\* LRUCache takes no lock (its fields are capacity, data and valid_secs), so
\* calls made by different threads interleave statement by statement.  The
\* router's endpoints reach it through OidcVerifier.verify on the event
\* loop, one call at a time; Verify above is that use.  Here each thread
\* runs get or put one statement per step, and req holds, per thread, the
\* call in progress.
Threads == {1, 2}

ThreadCall(pc, op, key, value, valid, ts, returned, raised) ==
    [pc |-> pc, op |-> op, key |-> key, value |-> value, valid |-> valid,
     ts |-> ts, returned |-> returned, raised |-> raised]
ThreadIdle == ThreadCall("idle", "none", "None", "None", "None", -1, "None", "None")

ThreadUnchanged ==
    UNCHANGED <<lastUse, inserted, onlyFresh, lastv, resp, setup,
                registryVars, orderVars, writerVars, handlerVars, storeVars>>

\* OrderedDict raises KeyError for a key it does not hold
KeyError(call) == [call EXCEPT !.pc = "raised", !.raised = "KeyError"]
Return(call, value) == [call EXCEPT !.pc = "idle", !.returned = value]

\* a thread enters get(key) or put(key, value)
EnterCall(thread, op, key, value) ==
    /\ calls < MaxCalls
    /\ req[thread].pc = "idle"
    /\ req' = [req EXCEPT ![thread] =
                 ThreadCall(IF op = "get" THEN "get_in" ELSE "put_set", op,
                            key, value, "None", -1, "None", "None")]
    /\ calls' = calls + 1
    /\ UNCHANGED <<lru, now>>
    /\ ThreadUnchanged

\* get: if key in self.data
GetIn(thread) ==
    /\ req[thread].pc = "get_in"
    /\ req' = [req EXCEPT ![thread] =
                 IF KeyPos(lru, @.key) # 0 THEN [@ EXCEPT !.pc = "get_move"]
                 ELSE Return(@, "None")]
    /\ UNCHANGED <<lru, now, calls>>
    /\ ThreadUnchanged

\* get: self.data.move_to_end(key)
GetMove(thread) ==
    LET i == KeyPos(lru, req[thread].key)
    IN /\ req[thread].pc = "get_move"
       /\ lru' = IF i = 0 THEN lru ELSE MoveToEnd(lru, i)
       /\ req' = [req EXCEPT ![thread] =
                    IF i = 0 THEN KeyError(@) ELSE [@ EXCEPT !.pc = "get_read"]]
       /\ UNCHANGED <<now, calls>>
       /\ ThreadUnchanged

\* get: valid, ts = self.data[key]
GetRead(thread) ==
    LET i == KeyPos(lru, req[thread].key)
    IN /\ req[thread].pc = "get_read"
       /\ req' = [req EXCEPT ![thread] =
                    IF i = 0 THEN KeyError(@)
                    ELSE [@ EXCEPT !.pc = "get_time", !.valid = lru[i].valid,
                                   !.ts = lru[i].ts]]
       /\ UNCHANGED <<lru, now, calls>>
       /\ ThreadUnchanged

\* get: if time.time() - ts <= self.valid_secs: return valid
GetTime(thread) ==
    /\ req[thread].pc = "get_time"
    /\ req' = [req EXCEPT ![thread] =
                 IF now - @.ts <= ValidSecs THEN Return(@, @.valid)
                 ELSE [@ EXCEPT !.pc = "get_pop"]]
    /\ UNCHANGED <<lru, now, calls>>
    /\ ThreadUnchanged

\* get: self.data.pop(key); return None
GetPop(thread) ==
    LET i == KeyPos(lru, req[thread].key)
    IN /\ req[thread].pc = "get_pop"
       /\ lru' = IF i = 0 THEN lru
                 ELSE SubSeq(lru, 1, i - 1) \o SubSeq(lru, i + 1, Len(lru))
       /\ req' = [req EXCEPT ![thread] =
                    IF i = 0 THEN KeyError(@) ELSE Return(@, "None")]
       /\ UNCHANGED <<now, calls>>
       /\ ThreadUnchanged

\* put: self.data[key] = (value, time.time())
PutSet(thread) ==
    LET call == req[thread]
        entry == [key |-> call.key, valid |-> call.value, ts |-> now]
        i == KeyPos(lru, call.key)
    IN /\ call.pc = "put_set"
       /\ lru' = IF i = 0 THEN Append(lru, entry) ELSE [lru EXCEPT ![i] = entry]
       /\ req' = [req EXCEPT ![thread].pc = "put_move"]
       /\ UNCHANGED <<now, calls>>
       /\ ThreadUnchanged

\* put: self.data.move_to_end(key)
PutMove(thread) ==
    LET i == KeyPos(lru, req[thread].key)
    IN /\ req[thread].pc = "put_move"
       /\ lru' = IF i = 0 THEN lru ELSE MoveToEnd(lru, i)
       /\ req' = [req EXCEPT ![thread] =
                    IF i = 0 THEN KeyError(@) ELSE [@ EXCEPT !.pc = "put_len"]]
       /\ UNCHANGED <<now, calls>>
       /\ ThreadUnchanged

\* put: if len(self.data) > self.capacity
PutLen(thread) ==
    /\ req[thread].pc = "put_len"
    /\ req' = [req EXCEPT ![thread] =
                 IF Len(lru) > Capacity THEN [@ EXCEPT !.pc = "put_pop"]
                 ELSE Return(@, "None")]
    /\ UNCHANGED <<lru, now, calls>>
    /\ ThreadUnchanged

\* put: self.data.popitem(last=False)
PutPop(thread) ==
    /\ req[thread].pc = "put_pop"
    /\ lru' = IF lru = <<>> THEN lru ELSE Tail(lru)
    /\ req' = [req EXCEPT ![thread] =
                 IF lru = <<>> THEN KeyError(@) ELSE Return(@, "None")]
    /\ UNCHANGED <<now, calls>>
    /\ ThreadUnchanged

\* the clock of the threads' time.time()
ThreadTick ==
    /\ now < MaxTime
    /\ now' = now + 1
    /\ UNCHANGED <<lru, calls, req>>
    /\ ThreadUnchanged

ThreadKeys == {"tA", "tB", "tC"}

InitThreads ==
    /\ RegistryIdle /\ OrderIdle /\ WriterIdle /\ HandlerIdle /\ OidcIdle /\ StoreIdle
    /\ req = [thread \in Threads |-> ThreadIdle]
    /\ resp = NoResponse
    /\ setup = NoSetup

NextThreads ==
    \/ ThreadTick
    \/ \E thread \in Threads, key \in ThreadKeys : EnterCall(thread, "get", key, "None")
    \/ \E thread \in Threads, key \in ThreadKeys : EnterCall(thread, "put", key, jwt_outcome(key, now))
    \/ \E thread \in Threads :
          \/ GetIn(thread)
          \/ GetMove(thread)
          \/ GetRead(thread)
          \/ GetTime(thread)
          \/ GetPop(thread)
          \/ PutSet(thread)
          \/ PutMove(thread)
          \/ PutLen(thread)
          \/ PutPop(thread)

SpecThreads == InitThreads /\ [][NextThreads]_vars

----------------------------------------------------------------------------
(* parquet-writer: one ParquetVcfWriter fed by the readers of a command *)

MaxWriterCalls == 6
MaxRows == 2

\* VcfBaseReader.write_to: writer.at_chr_pos(chr_id, pos); a RuntimeError
\* ends the command
AtChrPos(chr_id, pos) ==
    LET r == at_chr_pos(writer, outputDir, chr_id, pos)
    IN /\ writer.raised = "None"
       /\ nev < MaxWriterCalls
       /\ writer' = r.writer
       /\ outputDir' = r.dir
       /\ nev' = nev + 1
       /\ last' = Op("at_chr_pos", NoDataset, NoPath, r.writer.raised = "None")
       /\ UNCHANGED <<DATA, failedLast>>
       /\ UNCHANGED <<orderVars, handlerVars, oidcVars, storeVars, queryVars>>

\* VcfBaseReader.write_to: writer.add_row(parquet_row_data), after the
\* at_chr_pos of the variant
AddRow ==
    /\ writer.raised = "None"
    /\ writer.chr_id # NoChrom
    /\ writer.buf < MaxRows
    /\ nev < MaxWriterCalls
    /\ writer' = [writer EXCEPT !.buf = @ + 1]
    /\ nev' = nev + 1
    /\ last' = Op("add_row", NoDataset, NoPath, TRUE)
    /\ UNCHANGED <<DATA, failedLast, outputDir>>
    /\ UNCHANGED <<orderVars, handlerVars, oidcVars, storeVars, queryVars>>

\* VcfBaseReader.write_to: writer.close() at the end of a VCF file; the
\* command goes on to feed the next file to the same writer
Close ==
    LET r == write_table(writer, outputDir)
    IN /\ writer.raised = "None"
       /\ nev < MaxWriterCalls
       /\ writer' = r.writer
       /\ outputDir' = r.dir
       /\ nev' = nev + 1
       /\ last' = Op("close", NoDataset, NoPath, TRUE)
       /\ UNCHANGED <<DATA, failedLast>>
       /\ UNCHANGED <<orderVars, handlerVars, oidcVars, storeVars, queryVars>>

\* cmd_af_parquet builds the writer; the destination directory is empty or
\* holds a file of an earlier run
InitWriter ==
    /\ RegistryIdle /\ OrderIdle /\ HandlerIdle /\ OidcIdle /\ StoreIdle /\ QueryIdle
    /\ writer = NewWriter
    /\ outputDir \in {Directory({}), Directory({ParquetFile("1", 0)})}

NextWriter ==
    \/ \E chr_id \in WriterChroms, pos \in WriterPositions : AtChrPos(chr_id, pos)
    \/ AddRow
    \/ Close

SpecWriter == InitWriter /\ [][NextWriter]_vars

----------------------------------------------------------------------------
(* Tokens that expire while their outcome is cached *)

ExpiringTokens == {"tA", "tE", "tC"}

NextExpiry == Tick \/ \E token \in ExpiringTokens : Verify(token)

SpecExpiry == Init /\ [][NextExpiry]_vars

----------------------------------------------------------------------------
(* Claims *)

\* every file a BeaconData indexes
FilesOf(assemblies) ==
    UNION {UNION {({assemblies[i].datasets[k].individuals_parquet}
                      \ {NoPath})
                  \cup FnRange(assemblies[i].datasets[k].chr_group_files) :
                  k \in 1..Len(assemblies[i].datasets)} :
           i \in 1..Len(assemblies)}

IndexedFiles(R) == FilesOf(R.aggregated_beacon) \cup FilesOf(R.sensitive_beacon)

InCatalogList(R, c, id) == InSeq(R.fdp.catalog_datasets[c], id)

\* C1: every dataset id in fdp.catalog_datasets[c] is a registered dataset
\* whose catalog_id is c, and it occurs in no other catalog list and only
\* once in that list.
C1_CatalogListsMatchDatasets ==
    \A c \in CatalogIds :
      \A i \in 1..Len(DATA.fdp.catalog_datasets[c]) :
        LET id == DATA.fdp.catalog_datasets[c][i]
        IN /\ id \in DOMAIN DATA.fdp.datasets
           /\ DATA.fdp.datasets[id].catalog_id = c
           /\ \A c2 \in CatalogIds :
                \A j \in 1..Len(DATA.fdp.catalog_datasets[c2]) :
                   DATA.fdp.catalog_datasets[c2][j] = id => (c2 = c /\ j = i)

\* a dataset has just been re-registered under another catalog while
\* another dataset is listed too
C1_Witness ==
    /\ last.op = "add_dataset"
    /\ last.flag
    /\ \E c \in CatalogIds : Len(DATA.fdp.catalog_datasets[c]) >= 2

\* C2: the removal event of DATA_DIR/<id>/metadata.yaml removes <id> from
\* fdp.datasets and from every catalog list and leaves both BeaconData
\* unchanged.
C2_MetadataRemovalKeepsBeacon ==
    [][(last'.op = "on_removed_file" /\ last'.path \in MetadataPaths) =>
         LET id == last'.path.dir[1]
         IN /\ id \notin DOMAIN DATA'.fdp.datasets
            /\ \A c \in CatalogIds : ~InCatalogList(DATA', c, id)
            /\ DATA'.aggregated_beacon = DATA.aggregated_beacon
            /\ DATA'.sensitive_beacon = DATA.sensitive_beacon
            /\ IndexedFiles(DATA) \subseteq IndexedFiles(DATA')]_vars

\* C3: remove_parquet(id, path) un-indexes at most the file `path`: every
\* other file indexed before the call is indexed after it.
C3_RemoveParquetKeepsOtherFiles ==
    [][(last'.op = "on_removed_file" /\ last'.path \in ParquetPaths) =>
         (IndexedFiles(DATA) \ {last'.path}) \subseteq IndexedFiles(DATA')]_vars

\* C4: problematic_files holds exactly the files whose latest read or parse
\* attempt failed and that were not re-read, re-parsed or removed since.
C4_ProblematicIffLastAttemptFailed ==
    DATA.problematic_files = failedLast

\* C5: with assembly, chrom and pos given, get_dataset_individuals returns
\* only datasets whose BeaconDataset under that assembly has
\* individuals_parquet and a file of the position's chr_group, and maps
\* each to those two paths.
C5_IndividualsOfRequestedAssembly ==
    \A a \in Assemblies, c \in Chroms, pos \in Positions :
      LET found == get_dataset_individuals(DATA.sensitive_beacon, a, c, pos)
          ap == AssemblyPos(DATA.sensitive_beacon, a)
          group == <<c, ".", IntStr(pos \div POS_DIVIDER)>>
      IN \A id \in DOMAIN found :
           /\ ap # 0
           /\ \E k \in 1..Len(DATA.sensitive_beacon[ap].datasets) :
                LET d == DATA.sensitive_beacon[ap].datasets[k]
                IN /\ d.dataset_id = id
                   /\ d.individuals_parquet # NoPath
                   /\ group \in DOMAIN d.chr_group_files
                   /\ found[id] = <<d.individuals_parquet,
                                    d.chr_group_files[group]>>

\* Python's == on two BeaconData: the assemblies dicts hold the same
\* assembly -> dataset list entries (the insertion order of the keys is
\* not compared)
SameBeaconData(x, y) == Range(x) = Range(y)

SameRegistry(R, S) ==
    /\ R.fdp = S.fdp
    /\ SameBeaconData(R.aggregated_beacon, S.aggregated_beacon)
    /\ SameBeaconData(R.sensitive_beacon, S.sensitive_beacon)
    /\ R.problematic_files = S.problematic_files

RECURSIVE ApplyInFixedOrder(_, _)
\* the events of a set applied in one fixed order
ApplyInFixedOrder(R, events) ==
    IF events = {} THEN R
    ELSE LET e == CHOOSE x \in events : TRUE
         IN ApplyInFixedOrder(on_new_file(R, e.path, e.parse), events \ {e})

\* names the data directory layout gives to indexed Parquet files
LayoutNames == {IndividualsParquet, AlleleFreqChr10, IndividualsChr10}

\* C6: whatever the order in which the metadata and Parquet "created"
\* events of one dataset were applied, the registry equals the one a fixed
\* order of the same events gives; every applied Parquet file of the layout
\* is indexed, metadata applied or not; the dataset is in fdp.datasets
\* exactly when its metadata event has been applied and parsed.
C6_EventOrderIsIrrelevant ==
    /\ SameRegistry(DATA, ApplyInFixedOrder(start0, applied))
    /\ \A e \in applied :
          e.path.name \in LayoutNames => e.path \in IndexedFiles(DATA)
    /\ "d1" \in DOMAIN DATA.fdp.datasets
          <=> \E e \in applied : e.path = MetadataPath("d1") /\ e.parse.ok

\* the metadata came last, after Parquet files of both personalities
C6_Witness ==
    /\ pending = {}
    /\ last.path = MetadataPath("d1")
    /\ last.flag
    /\ FilesOf(DATA.aggregated_beacon) # {}
    /\ FilesOf(DATA.sensitive_beacon) # {}
    /\ "d1" \in DOMAIN DATA.fdp.datasets

\* C7: when the handler has read a dataset id from a catalog list, its
\* lookup of that id in fdp.datasets finds the dataset.
C7_ListedDatasetIsFound ==
    hpc = "lookup" => hid \in DOMAIN DATA.fdp.datasets

\* C8 as claimed: no request handler changes any part of the registry.
C8_HandlersChangeNothing ==
    [][last'.op \in HandlerOps => DATA' = DATA]_vars

\* C8 as amended: no request handler changes fdp, aggregated_beacon or
\* sensitive_beacon; problematic_files is the only part a handler writes.
C8_HandlersChangeOnlyProblematicFiles ==
    [][last'.op \in HandlerOps =>
         /\ DATA'.fdp = DATA.fdp
         /\ DATA'.aggregated_beacon = DATA.aggregated_beacon
         /\ DATA'.sensitive_beacon = DATA.sensitive_beacon]_vars

\* a query handler has run over indexed files and one of its reads failed
C8_Witness ==
    /\ last.op \in {"g_variants", "individuals"}
    /\ last.flag
    /\ DATA.problematic_files # {}
    /\ IndexedFiles(DATA) # {}

\* C9 as claimed: a verify call on a token whose outcome the cache holds
\* since t0 answers with that outcome, without decoding, at every time
\* t < t0 + T, and decodes the token again at every time t >= t0 + T.
C9_CacheServesBeforeTtl ==
    [][(lastv'.op = "verify" /\ now' = now /\ KeyPos(lru, lastv'.key) # 0
          /\ TokenLen(lastv'.key) > 100) =>
         LET e == lru[KeyPos(lru, lastv'.key)]
         IN /\ now < e.ts + ValidSecs =>
                 (lastv'.result = e.valid /\ ~lastv'.decoded)
            /\ now >= e.ts + ValidSecs => lastv'.decoded]_vars

\* C9 as amended: the cached outcome is served, without decoding, at every
\* time t <= t0 + T; at every time t > t0 + T the entry is dropped and the
\* token is decoded again, the answer being the new outcome.
C9_CacheServesThroughTtl ==
    [][(lastv'.op = "verify" /\ now' = now /\ KeyPos(lru, lastv'.key) # 0
          /\ TokenLen(lastv'.key) > 100) =>
         LET e == lru[KeyPos(lru, lastv'.key)]
         IN /\ now <= e.ts + ValidSecs =>
                 (lastv'.result = e.valid /\ ~lastv'.decoded)
            /\ now > e.ts + ValidSecs =>
                 /\ lastv'.decoded
                 /\ lastv'.result = jwt_outcome(lastv'.key, now)
                 /\ lru'[KeyPos(lru', lastv'.key)].ts = now]_vars

\* a token was answered from the cache exactly T seconds after its outcome
\* was stored, after its exp: decoding it would have given another answer
C9_Witness ==
    /\ lastv.op = "verify"
    /\ ~lastv.decoded
    /\ lastv.age = ValidSecs
    /\ lastv.result # jwt_outcome(lastv.key, now)

\* the key whose last touch (get hit or put) is the oldest
LeastRecentlyUsed(ks) ==
    CHOOSE k \in ks : \A other \in ks : lastUse[k] <= lastUse[other]

OldestInserted(ks) ==
    CHOOSE k \in ks : \A other \in ks : inserted[k] <= inserted[other]

\* C10: the cache never holds more than `capacity` entries; a put that
\* overflows evicts exactly the least recently used key, which is the
\* oldest inserted key when only distinct keys were put and nothing read.
C10_LruEviction ==
    [][/\ Len(lru') <= Capacity
       /\ (lastv'.op = "put" /\ calls' # calls
             /\ Len(lru) = Capacity /\ lastv'.key \notin KeysOf(lru)) =>
            /\ KeysOf(lru') =
                 (KeysOf(lru) \cup {lastv'.key})
                    \ {LeastRecentlyUsed(KeysOf(lru))}
            /\ onlyFresh' =>
                 LeastRecentlyUsed(KeysOf(lru)) = OldestInserted(KeysOf(lru))
       /\ (lastv'.op \in {"put", "get"} /\ calls' # calls
             /\ ~(Len(lru) = Capacity /\ lastv'.key \notin KeysOf(lru))) =>
            KeysOf(lru) \ KeysOf(lru') \subseteq {lastv'.key}]_vars

\* a put into a full cache has evicted a key that was not the oldest
\* inserted one, because a get had refreshed the oldest
C10_Witness ==
    /\ lastv.op = "put"
    /\ Len(lru) = Capacity
    /\ ~onlyFresh
    /\ \E k \in KeysOf(lru) :
          /\ k # lastv.key
          /\ \A other \in KeysOf(lru) : inserted[k] <= inserted[other]
          /\ lastUse[k] > inserted[k]

\* C11: a sync() run that follows another one, the bucket not having
\* changed in between, downloads nothing and leaves the registry, the files
\* and the directories as the previous run left them.
C11_SecondSyncIsIdle ==
    [][(syncLog'.runs = syncLog.runs + 1 /\ syncLog.op = "sync"
          /\ ~syncLog.changed) =>
         /\ syncLog'.downloads = {}
         /\ syncLog'.removed = {}
         /\ DATA' = DATA
         /\ localFiles' = localFiles
         /\ localDirs' = localDirs]_vars

\* a second run over the same listing, after a first run that downloaded an
\* object, with an object whose multipart ETag cannot be compared still held
C11_Witness ==
    /\ syncLog.runs = 2
    /\ ~syncLog.changed
    /\ syncLog.worked
    /\ syncLog.downloads = {}
    /\ \E f \in DOMAIN bucket : InSeq(bucket[f].etag, "-")

\* the datasets whose metadata.yaml is in the data directory
DatasetsWithMetadata(fs) ==
    {d \in DatasetIds : MetadataPath(d) \in DOMAIN fs}

\* C12: when sync() has run, every local file is one the bucket lists, the
\* registry refers to no file that is gone (no Beacon file, no FDP dataset,
\* no catalog listing; no aggregated dataset when the bucket is empty) and
\* no directory below DATA_DIR is empty.
C12_SyncRemovesStaleFiles ==
    [][syncLog'.runs = syncLog.runs + 1 =>
         /\ DOMAIN localFiles' \subseteq DOMAIN bucket
         /\ syncLog'.removed = DOMAIN localFiles \ DOMAIN bucket
         /\ IndexedFiles(DATA') \subseteq DOMAIN localFiles'
         /\ DOMAIN DATA'.fdp.datasets
               \subseteq DatasetsWithMetadata(localFiles')
         /\ \A c \in CatalogIds :
               Range(DATA'.fdp.catalog_datasets[c])
                  \subseteq DatasetsWithMetadata(localFiles')
         /\ bucket = <<>> => get_dataset_ids(DATA'.aggregated_beacon) = {}
         /\ \A d \in localDirs' : HasEntries(localFiles', localDirs', d)]_vars

\* a run has deleted an indexed Parquet file and a registered metadata.yaml
\* and has kept another file
C12_Witness ==
    /\ syncLog.op = "sync"
    /\ MetadataPath("d1") \in syncLog.removed
    /\ ParquetPath("d1", "GRCh37", AlleleFreqChr10) \in syncLog.removed
    /\ localFiles # <<>>

\* C13: no failure raised while subscribing or while handling an event
\* leaves observe(): the loop goes to sleep, then back to the stop check
\* and, if not stopped, to a new subscription; observe() has returned only
\* when the stop signal is set.
C13_ObserveCatchesFailures ==
    [][/\ opc' # "raised"
       /\ opc' = "returned" => stop'
       /\ (opc \in {"subscribe", "poll"} /\ obsLog'.failed /\ ~obsLog.failed)
             => (opc' = "sleep" /\ sleepLeft' = SleepTenths)
       /\ opc = "sleep" => opc' \in {"sleep", "check"}
       /\ (opc = "check" /\ ~stop) => opc' \in {"check", "subscribe"}]_vars

\* after a failure of the registry update the observer has subscribed again
\* and has handled a later event
C13_Witness ==
    /\ obsLog.failed
    /\ obsLog.handledAfterFailure
    /\ opc = "poll"
    /\ localFiles # <<>>
    /\ DATA # EmptyRegistry

\* C14: the observe loop is never blocked or asleep for longer than one
\* poll timeout without reading the stop signal.
C14_StopIsCheckedEverySlice ==
    blocked <= PollTimeoutTenths

----------------------------------------------------------------------------
(* Claims on the Beacon queries *)

\* the fields the specification calls unsupported
HasUnsupportedField(params) ==
    \/ params.geneId # "None"
    \/ params.mateName # "None"
    \/ params.aminoacidChange # "None"
    \/ params.genomicAlleleShortForm # "None"
    \/ params.variantMinLength # NoCount
    \/ params.variantMaxLength # NoCount

\* C15: with hideLowerCounts = K, no result set of an answer of
\* get_individuals_count carries a resultsCount lower than K.
C15_CountsBelowThresholdHidden ==
    req.endpoint = "individuals" =>
        \A i \in 1..Len(resp.resultSets) :
            resp.resultSets[i].resultsCount >= setup.hide_lower_counts

\* C18: a query that carries an unsupported variant parameter is answered,
\* on /g_variants and on /individuals, without an error and with an empty
\* result set, whatever other variant parameters accompany it.
C18_UnsupportedParameterGivesEmptyResult ==
    (/\ req.endpoint # "none"
     /\ req.query.requestParameters # <<>>
     /\ HasUnsupportedField(req.query.requestParameters[1]))
    => resp = Returned(<<>>)

\* C19: an /individuals query without testMode, with
\* includeResultsetResponses unset or HIT, valid filters and sufficient
\* variant parameters without unsupported fields is answered by the variant
\* path: per dataset of get_dataset_individuals whose variant row matches,
\* the number of individuals of the parsed index set that satisfy the
\* filter, unless censored.
C19_SufficientParametersTakeVariantPath ==
    (/\ req.endpoint = "individuals"
     /\ ~req.query.testMode
     /\ req.query.includeResultsetResponses \in {"None", "HIT"}
     /\ resolve_filters(req.query.filters).valid
     /\ req.query.requestParameters # <<>>
     /\ has_sufficient_values(req.query.requestParameters[1])
     /\ ~HasUnsupportedField(req.query.requestParameters[1]))
    => resp = results_from_variants(
                  DATA, req.query.requestParameters[1],
                  resolve_filters(req.query.filters),
                  page_skip(req.query.pagination),
                  page_limit(req.query.pagination),
                  setup.hide_lower_counts)

\* the answer of the endpoint's service function to a request
Answer(R, request) ==
    IF request.endpoint = "g_variants"
    THEN allele_frequencies(R, request.query.requestParameters,
                            request.query.pagination)
    ELSE get_individuals_count(R, request.query, setup.hide_lower_counts)

\* the request without its pagination
Unpaged(request) ==
    [request EXCEPT !.query.pagination = [limit |-> NoCount, skip |-> NoCount]]

\* positions skip+1 .. skip+limit of a sequence
PageOf(s, skip, limit) ==
    SubSeq(s, skip + 1, IF skip + limit < Len(s) THEN skip + limit ELSE Len(s))

\* C20: the answer to a paginated /g_variants or /individuals query holds
\* exactly the datasets at positions skip+1 .. skip+limit of the datasets
\* that produce a result, in registry order, so never more than `limit`.
C20_PageOfDatasetsWithResult ==
    (req.endpoint # "none" /\ Answer(DATA, Unpaged(req)).raised = "None")
    => resp = Returned(PageOf(Answer(DATA, Unpaged(req)).resultSets,
                              page_skip(req.query.pagination),
                              page_limit(req.query.pagination)))

----------------------------------------------------------------------------
(* Claims on the passport check *)

\* a visa that passes every check of _check_visa at time t
GoodVisa(visa_jwt, subject, t) ==
    /\ visa_jwt.exp > t
    /\ visa_jwt.iat
    /\ visa_jwt.sub = subject
    /\ visa_jwt.jku
    /\ visa_jwt.signed

\* the visa's ga4gh_visa_v1 claim is equal to the shape on every key the
\* shape lists
MatchesShape(visa_jwt, shape) ==
    /\ visa_jwt.visa_obj # NotADict
    /\ \A claim \in DOMAIN shape :
          claim \in DOMAIN visa_jwt.visa_obj
              /\ visa_jwt.visa_obj[claim] = shape[claim]

\* when the verifier decided on the token of the latest call: now, or when
\* the cached outcome it answered with was stored
DecidedAt == lru[KeyPos(lru, lastv.key)].ts

\* C17: with required visas configured, verify(token) returns true only if
\* every required shape is matched by a visa of the token's passport that
\* was unexpired with a valid iat when the token was decoded, names the
\* token's subject and is signed by the key of its jku; and a visa failing
\* one of these checks strikes no shape from the required list.
C17_VisasCoverRequiredShapes ==
    (lastv.op = "verify" /\ Len(setup.required_visas) > 0) =>
        LET passport == TokenPassport(lastv.key)
            subject == TokenSub(lastv.key)
        IN /\ lastv.result = "True" =>
                 /\ KeyPos(lru, lastv.key) # 0
                 /\ \A k \in 1..Len(setup.required_visas) :
                       \E i \in 1..Len(passport) :
                          /\ GoodVisa(passport[i], subject, DecidedAt)
                          /\ MatchesShape(passport[i],
                                          setup.required_visas[k])
           /\ \A i \in 1..Len(passport) :
                 ~GoodVisa(passport[i], subject, now) =>
                     check_visa(subject, passport[i], setup.required_visas,
                                now) = setup.required_visas

\* a token whose passport opens with a forged visa was accepted for two
\* required shapes
C17_Witness ==
    /\ lastv.op = "verify"
    /\ lastv.key = "pMixed"
    /\ lastv.result = "True"
    /\ Len(setup.required_visas) = 2

----------------------------------------------------------------------------
(* Claims on the authentication of the endpoints *)

\* the latest request carried `Authorization: Bearer <token>` and
\* OidcVerifier.verify(token) returned true
BearerVerified ==
    /\ starts_with_bearer(req.authorization)
    /\ lastv.op = "verify"
    /\ lastv.key = req.authorization[2]
    /\ lastv.result = "True"

\* C16: with OIDC configured an endpoint calls its handler only for a
\* request with `Authorization: Bearer <token>` whose token verify accepted,
\* and answers every other request 401 with WWW-Authenticate: Bearer; with
\* Basic auth configured it calls the handler only when the header equals a
\* configured credential, and answers 401 with WWW-Authenticate: Basic
\* otherwise.
C16_OnlyAuthenticatedRequestsAreHandled ==
    req.endpoint \in Endpoints =>
        /\ setup.oidc_verifier =>
              IF BearerVerified THEN resp = Handled(req.endpoint)
              ELSE resp = Unauthorized("Bearer")
        /\ setup.basic_headers # {} =>
              IF req.authorization \in setup.basic_headers
              THEN resp = Handled(req.endpoint)
              ELSE resp = Unauthorized("Basic")

\* a handler was called for a verified bearer token, with required visas
C16_Witness ==
    /\ req.endpoint = "g_variants"
    /\ setup.oidc_verifier
    /\ Len(setup.required_visas) > 0
    /\ BearerVerified
    /\ resp = Handled("g_variants")

----------------------------------------------------------------------------
(* Claims on the request parameters *)

IdChars == {"a", "_"}
ValueChars == {"a"}
OperatorChars == {"=", "!", "<", ">"}

\* item is id, op, value in this order, with a non-empty id of id
\* characters and a value of value characters
IsIdOpValue(item, id, op, value) ==
    /\ item = id \o op \o value
    /\ id # <<>>
    /\ \A i \in 1..Len(id) : id[i] \in IdChars
    /\ \A i \in 1..Len(value) : value[i] \in ValueChars

\* C21: parse_filters turns an item id<op>value, for each of the operators
\* =, !, <, <=, >, >=, into QueryFilter(id with every '_' replaced by ':',
\* op, value), and an item without an operator into QueryFilter(id = item).
C21_FiltersParseByOperator ==
    (req.endpoint = "filters" /\ req.filters # None) =>
        LET item == ValueOf(req.filters)
        IN /\ \A k \in 1..Len(FilterOperator) :
              \A n \in 1..Len(item) :
                 LET id == SubSeq(item, 1, n)
                     op == FilterOperator[k]
                     value == SubSeq(item, n + Len(op) + 1, Len(item))
                 IN IsIdOpValue(item, id, op, value) =>
                        resp.filters =
                            Some(<<QueryFilter(replace(id, "_", ":"),
                                               Some(op), Some(value))>>)
           /\ (item # <<>> /\ \A i \in 1..Len(item) : item[i] \in IdChars) =>
                 resp.filters = Some(<<QueryFilter(item, None, None)>>)

----------------------------------------------------------------------------
(* Claims on the INDIVIDUALS column *)

\* C22 as stated: for every finite set S of non-negative integers,
\* parse_range of the string _range_str gives for the ascending list of S
\* is exactly S.
C22_RangeRoundTrip ==
    req.endpoint = "INDIVIDUALS" =>
        resp.raised = "None" /\ resp.indices = req.samples

\* C22, amended: the round trip holds for every non-empty finite set S of
\* non-negative integers; for the empty list _range_str gives no string.
C22_RangeRoundTripOfNonEmpty ==
    req.endpoint = "INDIVIDUALS" =>
        IF req.samples = {} THEN resp.raised = "AssertionError"
        ELSE resp.raised = "None" /\ resp.indices = req.samples

\* a set with single numbers, a pair and a longer run, of one and of two
\* digits, went through the round trip
C22_Witness ==
    /\ req.endpoint = "INDIVIDUALS"
    /\ req.samples = {0, 2, 3, 5, 9, 10, 11}
    /\ resp.text = <<"0", ",", "2", ",", "3", ",", "5", ",",
                     "9", "-", "1", "1">>
    /\ resp.indices = req.samples

----------------------------------------------------------------------------
(* Claims on the query responses *)

\* the granularity the claim resolves: the requested one, else the
\* configured default, else boolean
Resolved ==
    IF req.requestedGranularity \in Granularity
    THEN req.requestedGranularity
    ELSE IF setup.default_granularity \in Granularity
    THEN setup.default_granularity
    ELSE "boolean"

\* the number of results handed to the response builder, and the records
\* it may show
CountOfResults ==
    IF req.endpoint = "response" THEN Len(req.results.items)
    ELSE Len(req.results)
RecordsOfResults ==
    IF req.endpoint = "response" THEN req.results
    ELSE CollectionsList(req.results)

\* C23: a response built by BeaconSetup.response or collection_response
\* has, at boolean granularity, exists only (no numTotalResults, no
\* records); at count granularity exists and numTotalResults but no
\* records; at record granularity exists, numTotalResults and the records.
C23_GranularityLimitsResponse ==
    req.endpoint \in {"response", "collection_response"} =>
        /\ resp.returnedGranularity = Resolved
        /\ resp.exists = (CountOfResults > 0)
        /\ Resolved = "boolean" =>
              resp.numTotalResults = NoCount /\ resp.response = None
        /\ Resolved = "count" =>
              resp.numTotalResults = CountOfResults /\ resp.response = None
        /\ Resolved = "record" =>
              /\ resp.numTotalResults = CountOfResults
              /\ resp.response = Some(RecordsOfResults)

\* a request for counts answered under a configuration defaulting to
\* records
C23_Witness ==
    /\ req.endpoint = "response"
    /\ req.requestedGranularity = "count"
    /\ setup.default_granularity = "record"
    /\ resp.numTotalResults = 2
    /\ resp.response = None

----------------------------------------------------------------------------
(* Claims on renamed directories *)

\* the BeaconDatasets of dataset_id that a BeaconData holds under assembly
EntriesOf(assemblies, dataset_id, assembly) ==
    LET ap == AssemblyPos(assemblies, assembly)
    IN IF ap = 0 THEN <<>>
       ELSE SelectSeq(assemblies[ap].datasets,
                      LAMBDA d : d.dataset_id = dataset_id)

\* C24: handling the rename of an assembly directory DATA_DIR/<id>/<assembly>
\* removes only the BeaconDatasets of <id> under <assembly>: fdp.datasets
\* and the catalog lists are unchanged, and so are the Beacon entries of
\* <id> under the other assembly (the destination being a directory that
\* on_moved_dir does not scan).
C24_AssemblyRenameKeepsTheRest ==
    [][(/\ last'.op = "on_moved_dir"
        /\ nev' = nev + 1
        /\ last'.path.dir \in AssemblyDirs
        /\ ~last'.flag) =>
         LET id == last'.path.dir[1]
             assembly == last'.path.dir[2]
         IN /\ DATA'.fdp = DATA.fdp
            /\ \A a \in Assemblies \ {assembly} :
                 /\ EntriesOf(DATA'.aggregated_beacon, id, a)
                       = EntriesOf(DATA.aggregated_beacon, id, a)
                 /\ EntriesOf(DATA'.sensitive_beacon, id, a)
                       = EntriesOf(DATA.sensitive_beacon, id, a)]_vars

----------------------------------------------------------------------------
(* Claims on the age filter *)

\* `a op v` for a stored age a and the filter's duration v, in years
Holds(a, op, v) ==
    CASE op = "<" -> a < v
      [] op = "<=" -> a <= v
      [] op = ">" -> a > v
      [] op = ">=" -> a >= v
      [] op = "=" -> a = v
      [] op = "!" -> a # v

\* the rows of the file the other criteria select whose AGE is a duration
\* satisfying the filter
RowsOfAge ==
    SelectSeq(Table(req.parquet_file),
        LAMBDA row :
            /\ req.individual_indices # {} =>
                  row.INDEX \in req.individual_indices
            /\ req.filters.sex # "None" => row.SEX = req.filters.sex
            /\ row.AGE # None
            /\ parse_duration(ValueOf(row.AGE)).raised = "None"
            /\ Holds(parse_duration(ValueOf(row.AGE)).years,
                     req.filters.operator, req.filters.age))

\* C25: with an age filter (operator op, duration v) active,
\* filter_individuals counts a row with stored AGE a iff `a op v` holds;
\* a row whose AGE is missing or not a duration is not counted.
C25_AgeFilterComparesStoredAge ==
    (req.endpoint = "filter_individuals" /\ has_age_filter(req.filters)) =>
        resp.count = IF Len(RowsOfAge) > 0 THEN Len(RowsOfAge) ELSE NoCount

----------------------------------------------------------------------------
(* Claims on datasets without matching individuals *)

\* the latest request was an /individuals count without variant parameters
\* that get_individuals_count hands to get_results_from_individuals_parquet
CountsAllIndividuals ==
    /\ req.endpoint = "individuals"
    /\ req.query.requestParameters = <<>>
    /\ ~req.query.testMode
    /\ req.query.includeResultsetResponses \in {"None", "HIT"}
    /\ resolve_filters(req.query.filters).valid

\* C30: in the /individuals count without variant parameters a dataset
\* whose individuals file yields no matching row is omitted from the result
\* sets and the query ends in a successful response: no result set is built
\* from a missing (None) or zero count.
C30_DatasetWithoutMatchIsOmitted ==
    CountsAllIndividuals =>
        /\ resp.raised = "None"
        /\ \A i \in 1..Len(resp.resultSets) :
              resp.resultSets[i].resultsCount > 0

\* C26: get and put of the token cache, called by concurrent request
\* threads, exclude one another: no call fails because another thread's
\* call removed or replaced its key between two of its statements, and
\* when no call is in progress the cache holds at most capacity entries
C26_CacheCallsAreMutuallyExclusive ==
    /\ \A thread \in Threads : req[thread].raised = "None"
    /\ (\A thread \in Threads : req[thread].pc = "idle") => Len(lru) <= Capacity

\* C27: over any sequence of at_chr_pos, add_row and close calls on one
\* ParquetVcfWriter, several VCF files in a row included, each Parquet
\* path is written at most once and never while the file already exists
C27_NoParquetFileIsOverwritten ==
    /\ \A f \in ParquetFiles : outputDir.writes[f] <= 1
    /\ outputDir.overwritten = {}

\* C28: add_parquet for a file whose basename has a recognised prefix
\* (allele-freq- or individuals-) but no extractable chr_group rejects the
\* file: aggregated_beacon and sensitive_beacon stay as they were, so no
\* BeaconDataset without files is left in an assembly list
C28_FileWithoutChrGroupIsRejected ==
    [][(/\ last'.op = "on_new_file"
        /\ nev' = nev + 1
        /\ last'.path \in ParquetPaths
        /\ basename(last'.path) # IndividualsParquet
        /\ beacon_of(basename(last'.path)) # "None"
        /\ resolve_chr_group(basename(last'.path)).kind # "ok") =>
         /\ DATA'.aggregated_beacon = DATA.aggregated_beacon
         /\ DATA'.sensitive_beacon = DATA.sensitive_beacon]_vars

\* C29: verify(token) never returns true at a time later than the token's
\* exp claim, whether the outcome comes from decoding the token or from
\* the LRU cache
C29_NoTrueAfterExp ==
    [][(/\ now' = now
        /\ lastv'.op = "verify"
        /\ lastv'.result = "True") => now <= TokenExp(lastv'.key)]_vars

====
